---- MODULE Spec2Model ----
(***************************************************************************)
(* A model of cv-cue-wrapper: the paginated fetch of managed devices       *)
(* (resources/managed_devices.py), the session lifecycle and the requests  *)
(* of the client (cv_cue_client.py), and the filters of the device list    *)
(* (resources/filters.py).                                                 *)
(*                                                                         *)
(* The specifications share the module.  SpecPaging runs get_all_aps       *)
(* against a server (SpecPagingList: against the servers that hold a fixed *)
(* list); SpecSession runs the client's construction, login, session probe *)
(* and session-file handling against an HTTP server and a file system;     *)
(* SpecConstruct runs the constructor alone on every combination of given  *)
(* and missing values; SpecRequest runs request, its verb wrappers and     *)
(* list_aps; SpecFilter and SpecBuilder run Filter and FilterBuilder.       *)
(* SpecClient adds close and the requests to the session lifecycle;        *)
(* SpecResource runs the resource registry and cache of two clients;       *)
(* SpecListing runs list_aps and get_all_aps with filters; SpecCli runs    *)
(* the commands list-aps and get-all-aps of the command line (main.py).    *)
(* Each leaves the other's variables alone.                                *)
(***************************************************************************)
EXTENDS Integers, Sequences, FiniteSets, TLC

VARIABLES
    \* ---- get_all_aps (managed_devices.py) ----
    server,        \* what the server does: [mode, devices, setcookie]
    pagesize,      \* the pagesize argument of the running get_all_aps call
    passed,        \* its filters, filter_operator and **kwargs arguments
    startindex,    \* local startindex
    all_devices,   \* local all_devices; the return value once pc = "done"
    pc,            \* "idle" | "loop" | "done" | "raised"
    reqs,          \* the list_aps requests issued by this call, in order
    pages,         \* the responses to them, in order
    \* ---- CVCueClient (cv_cue_client.py) ----
    client,        \* "none" (no client constructed) | "open"
    config,        \* key_id, key_value, client_id, base_url of the client
    cookies,       \* the client's cookie set, session.cookies: name -> value
    file,          \* the session file on disk: [kind, jar]
    last,          \* the last call on the client: what it was given, sent and gave back
    \* ---- Filter, FilterBuilder (resources/filters.py) ----
    filt,          \* the Filter constructed last: [property, operator, value]
    builder,       \* the FilterBuilder: [id, operator, filters]
    out,           \* the last call on a Filter or the builder: given, raised, returned
    \* ---- resource registry and cache (cv_cue_client.py) ----
    registry,      \* CVCueClient._resource_registry: name -> resource class
    resource_cache,\* each client's _resource_cache: name -> resource instance
    created,       \* how many resource instances have been created
    got,           \* the last attribute access on a client: name, result, raised
    \* ---- command line (main.py) ----
    cli            \* the command that runs, "none" when the library is called directly

pagingVars == <<server, pagesize, passed, startindex, all_devices, pc, reqs, pages>>

sessionVars == <<client, config, cookies, file, last>>

filterVars == <<filt, builder, out>>

resourceVars == <<registry, resource_cache, created, got>>

vars == <<server, pagesize, passed, startindex, all_devices, pc, reqs, pages,
          client, config, cookies, file, last, filt, builder, out,
          registry, resource_cache, created, got, cli>>

-----------------------------------------------------------------------------
(* Bounds of the model *)

MaxDevices == 4      \* longest device list a list server holds
MaxPagesize == 3     \* largest pagesize argument
MaxPageLen == 3      \* longest page an arbitrary server returns
MaxReq == 3          \* most requests of one get_all_aps call against an arbitrary server
MaxValueLen == 2     \* longest list or tuple given as a Filter's value
MaxFilters == 2      \* most filters a FilterBuilder holds

Devices == {"ap1", "ap2"}

Min(a, b) == IF a < b THEN a ELSE b

SeqsUpTo(S, n) == UNION {[1..k -> S] : k \in 0..n}

-----------------------------------------------------------------------------
(* Values of the client's world: strings, cookies, HTTP responses, the file *)

\* Python strings are sequences of characters; None is a value of its own
None == <<"<None>">>
Falsy(v) == v = None \/ v = <<>>

\* a or b
OrEnvironmentFirst(a, b) == IF Falsy(b) THEN a ELSE b
Or(a, b) == IF Falsy(a) THEN b ELSE a

RECURSIVE RStripSlash(_)
\* str.rstrip('/')
RStripSlash(str) ==
    IF str # <<>> /\ str[Len(str)] = "/"
    THEN RStripSlash(SubSeq(str, 1, Len(str) - 1))
    ELSE str

SessionCookie == "JSESSIONID"
CookieNames == {SessionCookie, "csrf"}

\* cookie values that start and end with a double quote: "\\""", "\"" and ""
QuotedTwice == "\"\\\\\"\"\""
QuotedOnce == "\"\\\"\""
QuotedEmpty == "\"\""

\* RequestsCookieJar.set_cookie, which every cookie put into a jar goes
\* through: if value.startswith('"') and value.endswith('"'):
\* value = value.replace('\\"', ''), one pass from the left
SetCookieValue(v) ==
    CASE v = QuotedTwice -> QuotedOnce
      [] v = QuotedOnce -> QuotedEmpty
      [] OTHER -> v

\* the values a Set-Cookie header gives a name, and the values a jar can
\* hold for it
HeaderValues(n) == IF n = SessionCookie THEN {"s1", QuotedTwice} ELSE {"c1"}
CookieValues(n) ==
    {SetCookieValue(v) : v \in HeaderValues(n)}
    \cup {SetCookieValue(SetCookieValue(v)) : v \in HeaderValues(n)}
AllCookieValues == UNION {CookieValues(n) : n \in CookieNames}
AllHeaderValues == UNION {HeaderValues(n) : n \in CookieNames}

\* a cookie set: a value for some of the names
EmptyJar == [n \in {} |-> "s1"]
Jars ==
    UNION {{j \in [D -> AllCookieValues] : \A n \in D : j[n] \in CookieValues(n)}
           : D \in SUBSET CookieNames}

\* what a response's Set-Cookie headers do to each name: leave it, expire
\* it, or give it a value
SetCookies ==
    {d \in [CookieNames -> {"keep", "expire"} \cup AllHeaderValues] :
        /\ d[SessionCookie] \in {"keep", "expire"} \cup HeaderValues(SessionCookie)
        /\ d["csrf"] \in {"keep"} \cup HeaderValues("csrf")}
KeepCookies == [n \in CookieNames |-> "keep"]

\* requests merges the cookies of a response into the session's cookie set
\* (extract_cookies_to_jar, which sets each cookie with set_cookie)
JarUpdate(jar, d) ==
    LET dom == {n \in CookieNames :
                    \/ d[n] = "keep" /\ n \in DOMAIN jar
                    \/ d[n] \notin {"keep", "expire"}}
    IN [n \in dom |-> IF d[n] = "keep" THEN jar[n] ELSE SetCookieValue(d[n])]

\* RequestsCookieJar.update(other): for cookie in other:
\* self.set_cookie(copy.copy(cookie))
JarMerge(jar, other) ==
    [n \in DOMAIN jar \cup DOMAIN other |->
        IF n \in DOMAIN other THEN SetCookieValue(other[n]) ELSE jar[n]]

\* What the HTTP layer gives back for one request: a transport failure
\* (requests.exceptions.RequestException, no response), or a response with
\* a status, a body that parses as JSON or does not, and Set-Cookie headers.
Statuses == {200, 204, 304, 401, 500}
TransportFailure ==
    [kind |-> "transport", status |-> 0, json_ok |-> FALSE, setcookie |-> KeepCookies]
Responses ==
    {TransportFailure}
    \cup {[kind |-> "http", status |-> st, json_ok |-> b, setcookie |-> d] :
            st \in Statuses, b \in BOOLEAN, d \in SetCookies}

\* the session file: absent, holding a pickled cookie set, or holding bytes
\* pickle.load cannot read
AbsentFile == [kind |-> "absent", jar |-> EmptyJar]
CorruptFile == [kind |-> "corrupt", jar |-> EmptyJar]
Pickle(jar) == [kind |-> "jar", jar |-> jar]
Files == {AbsentFile, CorruptFile} \cup {Pickle(j) : j \in Jars}

\* Path.exists()
Exists(f) == f.kind # "absent"

-----------------------------------------------------------------------------
(* CVCueClient *)

\* requests.Session.request / .get: the cookie set after the exchange
SessionSend(jar, resp) ==
    IF resp.kind = "transport" THEN jar ELSE JarUpdate(jar, resp.setcookie)

\* CVCueClient.request after session.request returned: raise_for_status()
\* raises for 4xx and 5xx, response.json() raises for a body that is no JSON
RequestExc(resp) ==
    IF resp.kind = "transport" THEN "RequestException"
    ELSE IF resp.status >= 400 /\ resp.status < 600 THEN "HTTPError"
    ELSE IF ~resp.json_ok THEN "JSONDecodeError"
    ELSE "none"

\* CVCueClient._load_session on a fresh session: the cookie set and the file
\* afterwards.  read_ok: open and pickle.load meet no I/O error; unlink_ok:
\* the unlink of a file that failed to load succeeds.
LoadedNoUnlink(f, jar, read_ok, unlink_ok) ==
    IF Exists(f) /\ f.kind = "jar" /\ read_ok
    THEN [cookies |-> JarMerge(jar, f.jar), file |-> f, unlink |-> "none"]
    ELSE [cookies |-> jar, file |-> f, unlink |-> "none"]
LoadSession(f, jar, read_ok, unlink_ok) ==
    IF ~Exists(f)
    THEN [cookies |-> jar, file |-> f, unlink |-> "none"]
    ELSE IF f.kind = "jar" /\ read_ok
    THEN [cookies |-> JarMerge(jar, f.jar), file |-> f, unlink |-> "none"]
    ELSE IF unlink_ok
    THEN [cookies |-> jar, file |-> AbsentFile, unlink |-> "ok"]
    ELSE [cookies |-> jar, file |-> f, unlink |-> "failed"]

\* CVCueClient._save_session: the file afterwards.  how = "ok": written;
\* "open_fails": open(.., 'wb') raises, the file is as it was; "dump_fails":
\* the file was opened (and so truncated) and pickle.dump raises.
SaveOutcomes == {"ok", "open_fails", "dump_fails"}
SaveSession(f, jar, how) ==
    IF how = "ok" THEN Pickle(jar)
    ELSE IF how = "open_fails" THEN f
    ELSE CorruptFile

\* The record of one call on the client: the call and its arguments (given),
\* what it returned or raised, the HTTP requests it sent and what came back
\* (got, status, setcookie), the cookie set and the file it started from, and
\* how its save and unlink of the session file went ("none": not attempted).
\* The record of a construction that comes right after a _save_session or a
\* clear_session on the same session file also tells how that call's save
\* and unlink went (prev).
\* main.py: the command that runs, if one does.
NoCommand == "none"

NoPrev ==
    [op |-> "none", save |-> "none", unlink |-> "none", held |-> FALSE,
     file0 |-> [kind |-> "absent", jar |-> [n \in {} |-> "s1"]]]
Call(op, given, ret, exc, sent, resp, save, unlink) ==
    [op |-> op, given |-> given, ret |-> ret, exc |-> exc, sent |-> sent,
     got |-> IF sent = <<>> THEN "none" ELSE resp.kind,
     status |-> IF sent = <<>> THEN 0 ELSE resp.status,
     setcookie |-> IF sent = <<>> THEN KeepCookies ELSE resp.setcookie,
     cookies0 |-> cookies, file0 |-> file,
     save |-> save, unlink |-> unlink,
     prev |-> IF \/ op = "construct" /\ last.op \in {"save_session", "clear_session"}
                 \/ op = "is_session_active" /\ last.op = "clear_session"
              THEN [op |-> last.op, save |-> last.save, unlink |-> last.unlink,
                    held |-> SessionCookie \in DOMAIN last.cookies0,
                    file0 |-> last.file0]
              ELSE NoPrev,
     \* the calls of the running command on its client, in order
     calls |-> IF cli = NoCommand THEN <<>>
               ELSE Append(last.calls, [op |-> op, ret |-> ret, exc |-> exc])]

NoArgs == <<>>

NoCall ==
    [op |-> "none", given |-> NoArgs, ret |-> "None", exc |-> "none", sent |-> <<>>,
     got |-> "none", status |-> 0, setcookie |-> KeepCookies,
     cookies0 |-> EmptyJar, file0 |-> AbsentFile,
     save |-> "none", unlink |-> "none", prev |-> NoPrev, calls |-> <<>>]

NoConfig == [key_id |-> None, key_value |-> None, client_id |-> None, base_url |-> None]

\* before any client is constructed
SessionIdle ==
    /\ client = "none"
    /\ config = NoConfig
    /\ cookies = EmptyJar
    /\ last = NoCall

\* what __init__ raises before it opens a session: ValueError for a key id,
\* key value or client id that is not given (if not self.key_id: ...), and
\* AttributeError from self.base_url.rstrip('/') for a base_url of None
ConstructExcCredentialsOnly(key_id, key_value, client_id, base_url) ==
    IF Falsy(key_id) \/ Falsy(key_value) \/ Falsy(client_id) THEN "ValueError" ELSE "none"
ConstructExc(key_id, key_value, client_id, base_url) ==
    IF Falsy(key_id) \/ Falsy(key_value) \/ Falsy(client_id) THEN "ValueError"
    ELSE IF base_url = None THEN "AttributeError"
    ELSE "none"

\* CVCueClient.__init__
Construct(args, env, read_ok, unlink_ok) ==
    LET key_id == Or(args.key_id, env.key_id)
        key_value == Or(args.key_value, env.key_value)
        client_id == Or(args.client_id, env.client_id)
        base_url == Or(args.base_url, env.base_url)
        exc == ConstructExc(key_id, key_value, client_id, base_url)
        loaded == LoadSession(file, EmptyJar, read_ok, unlink_ok)
    IN
    /\ IF exc # "none"
       THEN /\ client' = "none"
            /\ config' = NoConfig
            /\ cookies' = EmptyJar
            /\ file' = file
            /\ last' = Call("construct", <<args, env>>, "None", exc, <<>>, TransportFailure,
                            "none", "none")
       ELSE /\ client' = "open"
            /\ config' = [key_id |-> key_id, key_value |-> key_value,
                          client_id |-> client_id, base_url |-> RStripSlash(base_url)]
            /\ cookies' = loaded.cookies
            /\ file' = loaded.file
            /\ last' = Call("construct", <<args, env>>, "client", "none", <<>>,
                            TransportFailure, "none", loaded.unlink)
    /\ UNCHANGED <<pagingVars, filterVars, resourceVars, cli>>

\* if 'JSESSIONID' not in self.session.cookies
NoSessionCookieAny(jar) == jar = EmptyJar
NoSessionCookie(jar) == SessionCookie \notin DOMAIN jar

\* response.status_code == 200
ProbeSaysActive2xx(resp) == resp.status >= 200 /\ resp.status < 300
ProbeSaysActive(resp) == resp.status = 200

ProbeRequest == [method |-> "GET", path |-> <<"/", "session">>]

\* what the probe, self.session.get(url), leaves of the cookie set and the
\* file: the cookie set as the exchange left it, the file untouched
ProbeLeavesPurged(jar, f, resp) ==
    IF resp.kind = "http" /\ resp.status = 200
    THEN [cookies |-> SessionSend(jar, resp), file |-> f]
    ELSE [cookies |-> EmptyJar, file |-> AbsentFile]
ProbeLeaves(jar, f, resp) == [cookies |-> SessionSend(jar, resp), file |-> f]

\* CVCueClient.is_session_active
IsSessionActive ==
    /\ client = "open"
    /\ IF NoSessionCookie(cookies)
       THEN /\ cookies' = cookies
            /\ file' = file
            /\ last' = Call("is_session_active", NoArgs, "False", "none", <<>>,
                            TransportFailure, "none", "none")
       ELSE \E resp \in Responses :
            /\ cookies' = ProbeLeaves(cookies, file, resp).cookies
            /\ file' = ProbeLeaves(cookies, file, resp).file
            /\ last' = Call("is_session_active", NoArgs,
                            IF resp.kind = "http" /\ ProbeSaysActive(resp)
                            THEN "True" ELSE "False",
                            "none", <<ProbeRequest>>, resp, "none", "none")
    /\ UNCHANGED <<client, config>>
    /\ UNCHANGED <<pagingVars, filterVars, resourceVars, cli>>

\* the body login posts
LoginData(cfg) ==
    [type |-> "apiKeyCredentials", keyId |-> cfg.key_id, keyValue |-> cfg.key_value,
     clientIdentifier |-> cfg.client_id, timeout |-> 300]

LoginRequest(cfg) == [method |-> "POST", path |-> <<"/", "session">>, json |-> LoginData(cfg)]

\* _save_session() after the request of login returned
LoginSaveSkipped(f, jar, how) == f
LoginSaveStale(f, jar, how) == SaveSession(f, cookies, how)
LoginSave(f, jar, how) == SaveSession(f, jar, how)

\* CVCueClient.login
Login ==
    /\ client = "open"
    /\ \E resp \in Responses :
       LET exc == RequestExc(resp)
           jar == SessionSend(cookies, resp)
       IN /\ cookies' = jar
          /\ IF exc # "none"
             THEN /\ file' = file
                  /\ last' = Call("login", NoArgs, "None", exc, <<LoginRequest(config)>>,
                                  resp, "none", "none")
             ELSE \E how \in SaveOutcomes :
                  /\ file' = LoginSave(file, jar, how)
                  /\ last' = Call("login", NoArgs, "json", "none", <<LoginRequest(config)>>,
                                  resp, how, "none")
    /\ UNCHANGED <<client, config>>
    /\ UNCHANGED <<pagingVars, filterVars, resourceVars, cli>>

\* CVCueClient._save_session, called on its own
SaveWritesNothing(f, jar, how) == Pickle(EmptyJar)
SaveWrites(f, jar, how) == SaveSession(f, jar, how)

SaveSessionCall ==
    /\ client = "open"
    /\ \E how \in SaveOutcomes :
       /\ file' = SaveWrites(file, cookies, how)
       /\ last' = Call("save_session", NoArgs, "None", "none", <<>>, TransportFailure,
                       how, "none")
    /\ UNCHANGED <<client, config, cookies>>
    /\ UNCHANGED <<pagingVars, filterVars, resourceVars, cli>>

\* session_file.unlink() in clear_session: the file afterwards and what the
\* caller sees of a failure (except Exception: logger.error)
ClearKeepsFile(f, unlink_ok) == f
ClearFile(f, unlink_ok) == IF unlink_ok THEN AbsentFile ELSE f
ClearExcRaises(unlink_ok) == IF unlink_ok THEN "none" ELSE "OSError"
ClearExc(unlink_ok) == "none"

\* clear_session does not touch self.session.cookies
ClearCookiesDropped(jar) == EmptyJar
ClearCookies(jar) == jar

\* CVCueClient.clear_session
ClearSession ==
    /\ client = "open"
    /\ IF ~Exists(file)
       THEN /\ file' = file
            /\ last' = Call("clear_session", NoArgs, "None", "none", <<>>,
                            TransportFailure, "none", "none")
       ELSE \E unlink_ok \in BOOLEAN :
            /\ file' = ClearFile(file, unlink_ok)
            /\ last' = Call("clear_session", NoArgs, "None", ClearExc(unlink_ok), <<>>,
                            TransportFailure, "none",
                            IF unlink_ok THEN "ok" ELSE "failed")
    /\ cookies' = ClearCookies(cookies)
    /\ UNCHANGED <<client, config>>
    /\ UNCHANGED <<pagingVars, filterVars, resourceVars, cli>>

-----------------------------------------------------------------------------
(* Filter and FilterBuilder *)

\* Python values given as a filter's value: a scalar (its type and its
\* text), or a list or a tuple of scalars.
StrAtom(text) == [t |-> "str", s |-> text]
NoneAtom == [t |-> "NoneType", s |-> "None"]
Atoms == {StrAtom("Arista"), [t |-> "bool", s |-> "True"], [t |-> "int", s |-> "5"]}
Scalar(a) == [type |-> "scalar", items |-> <<a>>]
List(s) == [type |-> "list", items |-> s]
Tuple(s) == [type |-> "tuple", items |-> s]
PyValues ==
    {Scalar(a) : a \in Atoms}
    \cup {List(s) : s \in SeqsUpTo(Atoms, MaxValueLen)}
    \cup {Tuple(s) : s \in SeqsUpTo(Atoms, MaxValueLen)}

\* the elements of a list or tuple, in order
Elements(value) == [i \in 1..Len(value.items) |-> Scalar(value.items[i])]

\* Filter.OPERATOR_MAP, Filter.VALID_OPERATORS
OPERATOR_MAP ==
    [equals |-> "=", lessThan |-> "<", greaterThan |-> ">", lessThanOrEquals |-> "<=",
     greaterThanOrEquals |-> ">=", notEquals |-> "!=", contains |-> "contains",
     notContains |-> "notcontains"]
VALID_OPERATORS == DOMAIN OPERATOR_MAP

\* value if isinstance(value, list) else [value]
AsListWrapsAll(value) == <<value>>
AsList(value) == IF value.type = "list" THEN Elements(value) ELSE <<value>>

\* if operator not in self.VALID_OPERATORS: raise ValueError
FilterExc(operator) == IF operator \notin VALID_OPERATORS THEN "ValueError" ELSE "none"

NoFilter == [property |-> "", operator |-> "", value |-> <<>>]

\* Filter.__init__ when it does not raise
Filter(property, operator, value) ==
    [property |-> property, operator |-> operator, value |-> AsList(value)]

\* self.OPERATOR_MAP.get(self.operator, self.operator)
ApiOperatorIdentity(operator) == operator
ApiOperator(operator) ==
    IF operator \in DOMAIN OPERATOR_MAP THEN OPERATOR_MAP[operator] ELSE operator

\* Filter.to_dict
NoDict == [property |-> "", operator |-> "", value |-> <<>>]
ToDict(f) ==
    [property |-> f.property, operator |-> ApiOperator(f.operator), value |-> f.value]

\* json.dumps, as the sequence of the tokens of its output
JsonString(str) == <<"\"", str, "\"">>
JsonAtom(a) ==
    IF a.t = "str" THEN JsonString(a.s)
    ELSE IF a.t = "bool" THEN <<IF a.s = "True" THEN "true" ELSE "false">>
    ELSE IF a.t = "NoneType" THEN <<"null">>
    ELSE <<a.s>>

RECURSIVE JsonAtoms(_)
JsonAtoms(items) ==
    IF items = <<>> THEN <<>>
    ELSE IF Len(items) = 1 THEN JsonAtom(items[1])
    ELSE JsonAtom(items[1]) \o <<",">> \o JsonAtoms(Tail(items))

\* an element of a list: a scalar, or a tuple (written as an array)
JsonElement(e) ==
    IF e.type = "scalar" THEN JsonAtom(e.items[1])
    ELSE <<"[">> \o JsonAtoms(e.items) \o <<"]">>

RECURSIVE JsonElements(_)
JsonElements(value) ==
    IF value = <<>> THEN <<>>
    ELSE IF Len(value) = 1 THEN JsonElement(value[1])
    ELSE JsonElement(value[1]) \o <<",">> \o JsonElements(Tail(value))

JsonDumps(d) ==
    <<"{">> \o JsonString("property") \o <<":">> \o JsonString(d.property) \o <<",">>
    \o JsonString("operator") \o <<":">> \o JsonString(d.operator) \o <<",">>
    \o JsonString("value") \o <<":", "[">> \o JsonElements(d.value) \o <<"]", "}">>

\* Filter.__str__
Str(f) == JsonDumps(ToDict(f))

\* query parameters: a value for some of the parameter names
EmptyParams == [k \in {} |-> <<>>]

\* the record of one call on a Filter or on the builder
NoGiven == [property |-> "", operator |-> "", value |-> Scalar(NoneAtom)]
\* ret: the builder object the call returned (its identity), NoObject when it
\* raised or returned something else
NoObject == "none"
Out(op, given, exc, dict, str, params, ret) ==
    [op |-> op, given |-> given, exc |-> exc, dict |-> dict, str |-> str, params |-> params,
     ret |-> ret]
NoOut == Out("none", NoGiven, "none", NoDict, <<>>, EmptyParams, NoObject)

NoBuilder == [id |-> NoObject, operator |-> "", filters |-> <<>>]

FilterIdle ==
    /\ filt = NoFilter
    /\ builder = NoBuilder
    /\ out = NoOut

\* Filter(property, operator, value)
NewFilter(property, operator, value) ==
    LET exc == FilterExc(operator)
        given == [property |-> property, operator |-> operator, value |-> value]
    IN
    /\ filt' = IF exc # "none" THEN NoFilter ELSE Filter(property, operator, value)
    /\ out' = Out("Filter", given, exc, NoDict, <<>>, EmptyParams, NoObject)
    /\ UNCHANGED builder
    /\ UNCHANGED <<pagingVars, sessionVars, resourceVars, cli>>

\* filt.to_dict() and str(filt)
Serialize ==
    /\ filt # NoFilter
    /\ out' = Out("serialize", out.given, "none", ToDict(filt), Str(filt), EmptyParams,
                NoObject)
    /\ UNCHANGED <<filt, builder>>
    /\ UNCHANGED <<pagingVars, sessionVars, resourceVars, cli>>

\* FilterBuilder.__init__: if operator not in ("AND", "OR"): raise ValueError
BuilderExc(operator) == IF operator \notin {"AND", "OR"} THEN "ValueError" ELSE "none"

Builder(operator) == [operator |-> operator, filters |-> <<>>]

\* the identity of a newly made object: not that of the builder held so far
FreshId(b) == IF b.id = "first" THEN "second" ELSE "first"
NewObject(id, b) == [id |-> id, operator |-> b.operator, filters |-> b.filters]

\* return self
ReturnsCopy(b) == FreshId(b)
ReturnsSelf(b) == b.id

\* self.filters.append(Filter(property, operator, value))
AppendFilter(filters, f) == Append(filters, f)

\* FilterBuilder.add when Filter(...) does not raise
AddTo(b, property, operator, value) ==
    [b EXCEPT !.filters = AppendFilter(b.filters, Filter(property, operator, value))]

\* the operator each convenience method of FilterBuilder adds with
SugarOperator ==
    [contains |-> "contains", equals |-> "equals", not_contains |-> "notContains",
     not_equals |-> "notEquals", greater_than |-> "greaterThan", less_than |-> "lessThan",
     greater_than_or_equals |-> "greaterThanOrEquals",
     less_than_or_equals |-> "lessThanOrEquals"]

\* [str(f) for f in self.filters]
StrsReversed(filters) == [i \in 1..Len(filters) |-> Str(filters[Len(filters) + 1 - i])]
Strs(filters) == [i \in 1..Len(filters) |-> Str(filters[i])]

\* FilterBuilder.to_params
ToParams(b) ==
    IF b.filters = <<>> THEN EmptyParams
    ELSE [operator |-> b.operator, filter |-> Strs(b.filters)]

\* FilterBuilder(operator)
NewBuilder(operator) ==
    LET exc == BuilderExc(operator)
        given == [NoGiven EXCEPT !.operator = operator]
    IN
    /\ builder' = IF exc # "none" THEN NoBuilder
                  ELSE NewObject(FreshId(builder), Builder(operator))
    /\ out' = Out("FilterBuilder", given, exc, NoDict, <<>>, EmptyParams,
                  IF exc # "none" THEN NoObject ELSE FreshId(builder))
    /\ UNCHANGED filt
    /\ UNCHANGED <<pagingVars, sessionVars, resourceVars, cli>>

\* builder.add(property, operator, value)
Add(property, operator, value) ==
    LET exc == FilterExc(operator)
        given == [property |-> property, operator |-> operator, value |-> value]
    IN
    /\ builder # NoBuilder
    /\ Len(builder.filters) < MaxFilters \/ exc # "none"
    /\ builder' = IF exc # "none" THEN builder ELSE AddTo(builder, property, operator, value)
    /\ out' = Out("add", given, exc, NoDict, <<>>, EmptyParams,
                  IF exc # "none" THEN NoObject ELSE ReturnsSelf(builder))
    /\ UNCHANGED filt
    /\ UNCHANGED <<pagingVars, sessionVars, resourceVars, cli>>

\* builder.contains(property, value), builder.equals(property, value), ...
Sugar(method, property, value) ==
    LET given == [property |-> property, operator |-> SugarOperator[method], value |-> value]
    IN
    /\ builder # NoBuilder
    /\ Len(builder.filters) < MaxFilters
    /\ builder' = AddTo(builder, property, SugarOperator[method], value)
    /\ out' = Out(method, given, FilterExc(SugarOperator[method]), NoDict, <<>>, EmptyParams,
                  ReturnsSelf(builder))
    /\ UNCHANGED filt
    /\ UNCHANGED <<pagingVars, sessionVars, resourceVars, cli>>

\* builder.to_params()
ToParamsCall ==
    /\ builder # NoBuilder
    /\ out' = Out("to_params", NoGiven, "none", NoDict, <<>>, ToParams(builder), NoObject)
    /\ UNCHANGED <<filt, builder>>
    /\ UNCHANGED <<pagingVars, sessionVars, resourceVars, cli>>

-----------------------------------------------------------------------------
(* CVCueClient.request, its verb wrappers, and list_aps *)

\* An optional argument is a sequence: empty for None, else the one value.
Absent == <<>>
Some(v) == <<v>>

\* JSON bodies: None, the empty dict, a dict with entries
NoneBody == [type |-> "NoneType", size |-> 0]
EmptyBody == [type |-> "dict", size |-> 0]
SomeBody == [type |-> "dict", size |-> 1]
\* Python's truth value of a body
Truthy(body) == body.size > 0

\* dict.update
Update(a, b) == [k \in DOMAIN a \cup DOMAIN b |-> IF k \in DOMAIN b THEN b[k] ELSE a[k]]

RECURSIVE LStripSlash(_)
\* str.lstrip('/')
LStripSlash(str) ==
    IF str # <<>> /\ str[1] = "/" THEN LStripSlash(Tail(str)) ELSE str

ContentTypeJson == [k \in {"Content-Type"} |-> "application/json"]

\* if 'headers' not in kwargs and not kwargs.get('json'):
\*     kwargs['headers'] = {"Content-Type": "application/json"}
WithContentType(kwargs) ==
    IF "headers" \notin DOMAIN kwargs /\ ("json" \notin DOMAIN kwargs \/ ~Truthy(kwargs["json"]))
    THEN Update(kwargs, [k \in {"headers"} |-> ContentTypeJson])
    ELSE kwargs

\* the call self.session.request(method, url, **kwargs) that request makes
SessionRequest(cfg, method, path, kwargs) ==
    [method |-> method, url |-> cfg.base_url \o path, kwargs |-> WithContentType(kwargs)]

\* the responses the requests below are run against: every status, with and
\* without a JSON body, and a response that sets the session cookie
SetsSessionCookie == [KeepCookies EXCEPT ![SessionCookie] = "s1"]
RequestResponses ==
    {r \in Responses :
        \/ r.setcookie = KeepCookies
        \/ r.status = 200 /\ r.json_ok /\ r.setcookie = SetsSessionCookie}

\* the requests one call of request hands to the session, given the response
\* to the first: the one request, whatever came back
\* request does not call _save_session: the file stays as it is, whatever
\* cookies the exchange leaves in the session
RequestFileSaved(f, jar) == Pickle(jar)
RequestFile(f, jar) == f

SentRetrying(req, resp) == IF RequestExc(resp) # "none" THEN <<req, req>> ELSE <<req>>
Sent(req, resp) == <<req>>

\* request from self.session.request on: the exchange, raise_for_status(),
\* response.json(); op is the method of the client or resource that was called
Exchange(op, given, method, path, kwargs) ==
    /\ \E resp \in RequestResponses :
       LET exc == RequestExc(resp) IN
       /\ cookies' = SessionSend(cookies, resp)
       /\ file' = RequestFile(file, SessionSend(cookies, resp))
       /\ last' = Call(op, given, IF exc = "none" THEN "json" ELSE "None", exc,
                       Sent(SessionRequest(config, method, path, kwargs), resp), resp,
                       "none", "none")
    /\ UNCHANGED <<client, config>>
    /\ UNCHANGED <<pagingVars, filterVars, resourceVars, cli>>

\* CVCueClient.request
Request(method, path, kwargs) ==
    /\ client = "open"
    /\ Exchange("request", <<method, path, kwargs>>, method, path, kwargs)

\* the kwargs _make_request builds from data and params
MakeKwargs(data, params) ==
    Update(IF data # Absent THEN [k \in {"json"} |-> data[1]] ELSE [k \in {} |-> NoneBody],
           IF params # Absent THEN [k \in {"params"} |-> params[1]] ELSE [k \in {} |-> NoneBody])

\* path = f"/{endpoint.lstrip('/')}"
MakePath(endpoint) == <<"/">> \o LStripSlash(endpoint)

\* CVCueClient._make_request
MakeRequest(op, method, endpoint, data, params) ==
    Exchange(op, <<endpoint, data, params>>, method, MakePath(endpoint),
             MakeKwargs(data, params))

\* CVCueClient.get
Get(endpoint, params) ==
    /\ client = "open"
    /\ MakeRequest("get", "GET", endpoint, Absent, params)

\* CVCueClient.post
Post(endpoint, data) ==
    /\ client = "open"
    /\ MakeRequest("post", "POST", endpoint, data, Absent)

\* CVCueClient.put
Put(endpoint, data) ==
    /\ client = "open"
    /\ MakeRequest("put", "PUT", endpoint, data, Absent)

\* CVCueClient.delete
Delete(endpoint) ==
    /\ client = "open"
    /\ MakeRequest("delete", "DELETE", endpoint, Absent, Absent)

\* the defaults of list_aps
ListApsDefaults ==
    [startindex |-> 0, pagesize |-> 10, totalcountrequired |-> FALSE, sortby |-> "boxid",
     ascending |-> TRUE, fetchradios |-> TRUE, populatemeshinfo |-> FALSE,
     populatewiredinterfaces |-> FALSE]

\* no named argument given, no extra keyword parameter
NoneGiven == [k \in {} |-> 0]

\* the value of a named parameter: the caller's, or the default
Arg(given, name) == IF name \in DOMAIN given THEN given[name] ELSE ListApsDefaults[name]

\* the filters argument of list_aps: a FilterBuilder or a list of Filters
AsBuilder(b) == [type |-> "FilterBuilder", operator |-> b.operator, filters |-> b.filters]
AsFilterList(filters) == [type |-> "list", operator |-> "", filters |-> filters]

\* if locationid is not None: params["locationid"] = locationid
WithLocationAlways(params, given) ==
    Update(params, [k \in {"locationid"} |->
                      IF "locationid" \in DOMAIN given THEN given["locationid"] ELSE 0])
WithLocation(params, given) ==
    IF "locationid" \in DOMAIN given
    THEN Update(params, [k \in {"locationid"} |-> given["locationid"]])
    ELSE params

\* if filters is not None: ...
WithFiltersAlwaysAnd(params, given) ==
    IF "filters" \notin DOMAIN given THEN params
    ELSE IF given["filters"].type = "FilterBuilder"
    THEN Update(params, [operator |-> "AND", filter |-> Strs(given["filters"].filters)])
    ELSE Update(params, [operator |-> "AND", filter |-> Strs(given["filters"].filters)])

WithFilters(params, given) ==
    IF "filters" \notin DOMAIN given THEN params
    ELSE IF given["filters"].type = "FilterBuilder"
    THEN Update(params, ToParams(given["filters"]))
    ELSE Update(params,
                [k \in {"filter", "operator"} |->
                    IF k = "filter" THEN Strs(given["filters"].filters)
                    ELSE IF "filter_operator" \in DOMAIN given THEN given["filter_operator"]
                    ELSE "AND"])

\* the query parameters list_aps builds; extra: its **kwargs
ListApsParamsExtrasFirst(given, extra) ==
    Update(extra,
           WithFilters(WithLocation([k \in DOMAIN ListApsDefaults |-> Arg(given, k)], given),
                       given))

ListApsParams(given, extra) ==
    Update(WithFilters(WithLocation([k \in DOMAIN ListApsDefaults |-> Arg(given, k)], given),
                       given),
           extra)

ApsPath == <<"/", "manageddevices", "/", "aps">>
VersionHeader == [k \in {"Version"} |-> "19"]

\* ManagedDevicesResource.list_aps
ListAps(given, extra) ==
    /\ client = "open"
    /\ Exchange("list_aps", <<given, extra>>, "GET", ApsPath,
                [k \in {"params", "headers"} |->
                    IF k = "params" THEN ListApsParams(given, extra) ELSE VersionHeader])

\* CVCueClient.close: self.session.close().  The model takes a closed client
\* out of use; the next call is the construction of another client.
Close ==
    /\ client = "open"
    /\ client' = "closed"
    /\ last' = Call("close", NoArgs, "None", "none", <<>>, TransportFailure, "none", "none")
    /\ UNCHANGED <<config, cookies, file>>
    /\ UNCHANGED <<pagingVars, filterVars, resourceVars, cli>>

-----------------------------------------------------------------------------
(* The resources of a client: register_resource and __getattr__ *)

MaxInstances == 4

ClientIds == {1, 2}

\* The registrations made after import: a name and the class it is given.
\* test_resource is registered once and may be registered again with
\* another class.
Registrations == {<<"test_resource", "TestResource">>,
                  <<"test_resource", "OtherResource">>,
                  <<"close", "TestResource">>}

\* The names looked up on a client.
AccessedNames == {"managed_devices", "test_resource", "close", "nonexistent"}

\* Names that ordinary attribute lookup finds on a client (its methods and the
\* attributes set by __init__): Python calls __getattr__ only when that lookup
\* fails.
ClientAttributes == {"close"}

\* The registry after `import cv_cue_wrapper.resources`:
\* @BaseResource.register('managed_devices') on ManagedDevicesResource.
ImportRegistry == [n \in {"managed_devices"} |-> "ManagedDevicesResource"]

\* self._resource_cache = {}
EmptyCache == [n \in {} |-> 0]

\* resource_class(self): BaseResource.__init__ keeps the client.  id tells
\* apart two instances of the same class on the same client.
Instance(id, class, c) == [id |-> id, class |-> class, client |-> c]

NoInstance == Instance(0, "", 0)

NoGot == [client |-> 0, name |-> "", kind |-> "none", value |-> NoInstance,
          exc |-> "none", before |-> EmptyCache, registry0 |-> ImportRegistry]

ResourceIdle ==
    /\ registry = ImportRegistry
    /\ resource_cache = [c \in ClientIds |-> EmptyCache]
    /\ created = 0
    /\ got = NoGot

\* if name in self._resource_cache
CachedNever(cache, name) == FALSE

Cached(cache, name) == name \in DOMAIN cache

\* CVCueClient.register_resource: cls._resource_registry[name] = resource_class
RegisterResource(name, class) ==
    /\ registry' = Update(registry, [n \in {name} |-> class])
    /\ UNCHANGED <<resource_cache, created, got>>
    /\ UNCHANGED <<pagingVars, sessionVars, filterVars, cli>>

\* getattr(client, name): ordinary lookup first, then CVCueClient.__getattr__.
GetAttr(c, name) ==
    LET cache == resource_cache[c]
        Result(kind, value, exc) ==
            [client |-> c, name |-> name, kind |-> kind, value |-> value,
             exc |-> exc, before |-> cache, registry0 |-> registry]
    IN
    /\ IF name \in ClientAttributes
       THEN /\ got' = Result("attribute", NoInstance, "none")
            /\ UNCHANGED <<resource_cache, created>>
       ELSE IF Cached(cache, name)
       THEN /\ got' = Result("resource", cache[name], "none")
            /\ UNCHANGED <<resource_cache, created>>
       ELSE IF name \in DOMAIN registry
       THEN /\ created < MaxInstances
            /\ created' = created + 1
            /\ LET instance == Instance(created + 1, registry[name], c) IN
               /\ resource_cache' = [resource_cache EXCEPT
                                        ![c] = Update(cache, [n \in {name} |-> instance])]
               /\ got' = Result("resource", instance, "none")
       ELSE /\ got' = Result("none", NoInstance, "AttributeError")
            /\ UNCHANGED <<resource_cache, created>>
    /\ UNCHANGED registry
    /\ UNCHANGED <<pagingVars, sessionVars, filterVars, cli>>

-----------------------------------------------------------------------------
(* The server of the device-list endpoint *)

\* Python's list[start : start + size] for start, size >= 0
Slice(list, start, size) ==
    IF start >= Len(list) \/ size <= 0 THEN <<>>
    ELSE SubSeq(list, start + 1, Min(start + size, Len(list)))

OkPage(items) == [kind |-> "ok", items |-> items]

\* A "list" server holds a fixed list and answers (startindex, pagesize) with
\* its slice; an "any" server answers anything: a page of any length, a body
\* without the managedDevices key, an HTTP error status, a transport failure.
ServerResponses(srv, start, size) ==
    IF srv.mode = "list"
    THEN {OkPage(Slice(srv.devices, start, size))}
    ELSE {OkPage(items) : items \in SeqsUpTo(Devices, MaxPageLen)}
         \cup {[kind |-> k, items |-> <<>>] : k \in {"nokey", "http_error", "transport_error"}}

\* The Set-Cookie headers a server puts on its answers: none ("keep"), or any.
ServerSetCookies(srv) == IF srv.setcookie = "any" THEN SetCookies ELSE {KeepCookies}

Servers ==
    {[mode |-> "list", devices |-> l, setcookie |-> "keep"] : l \in SeqsUpTo(Devices, MaxDevices)}
    \cup {[mode |-> "any", devices |-> <<>>, setcookie |-> "keep"]}

\* the same servers, setting cookies on their answers
CookieServers == {[srv EXCEPT !.setcookie = "any"] : srv \in Servers}

\* client.request raises for an error status and for a transport failure
RaisesOnStatusOnly(resp) == resp.kind = "http_error"
Raises(resp) == resp.kind \in {"http_error", "transport_error"}

-----------------------------------------------------------------------------
(* ManagedDevicesResource.get_all_aps *)

\* devices = response.get("managedDevices", [])
ManagedDevicesOf(resp) == IF resp.kind = "ok" THEN resp.items ELSE <<>>

\* if not devices: break
EmptyPage(devices) == devices = <<>>

\* all_devices.extend(devices)
ExtendPrepend(all, devices) == devices \o all
Extend(all, devices) == all \o devices

\* if len(devices) < pagesize: break
ShortPageOrEqual(devices, size) == Len(devices) <= size
ShortPage(devices, size) == Len(devices) < size

\* startindex += pagesize
NextStartIndexOffByOne(start, size) == start + size + 1
NextStartIndex(start, size) == start + size

\* the request parameters get_all_aps hands to list_aps
PageRequest(start, size, args) ==
    Update([startindex |-> start, pagesize |-> size, totalcountrequired |-> FALSE], args)

\* get_all_aps called without filters: filters=None, filter_operator="AND"
NoFilters == [filter_operator |-> "AND"]

\* the keyword parameters in the signature of list_aps; a keyword of another
\* name is collected in its **kwargs
ListApsSignature == DOMAIN ListApsDefaults \cup {"locationid", "filters", "filter_operator"}
Restrict(d, keys) == [k \in DOMAIN d \cap keys |-> d[k]]

\* self.list_aps(startindex=..., pagesize=..., totalcountrequired=False, ...,
\* **kwargs): a **kwargs entry named like a keyword the call passes itself
\* is a TypeError (multiple values for keyword argument)
PageExc(args) ==
    IF {"startindex", "totalcountrequired"} \cap DOMAIN args # {} THEN "TypeError" ELSE "none"

\* get_all_aps(pagesize, filters, filter_operator, **kwargs)
GetAllAps(size, args, kwargs) ==
    /\ pc \in {"idle", "done", "raised"}
    /\ client = "open"
    /\ pagesize' = size
    /\ passed' = Update(args, kwargs)
    /\ all_devices' = <<>>
    /\ startindex' = 0
    /\ pc' = "loop"
    /\ reqs' = <<>>
    /\ pages' = <<>>
    /\ UNCHANGED server
    /\ UNCHANGED <<sessionVars, filterVars, resourceVars, cli>>

\* The HTTP answer behind a page: a page of devices and a body without the
\* key are 200 with JSON, an error status is st, a transport failure has no
\* answer.  sc: its Set-Cookie headers.
PageAnswer(resp, sc, st) ==
    IF resp.kind = "transport_error" THEN TransportFailure
    ELSE [kind |-> "http", status |-> IF resp.kind = "http_error" THEN st ELSE 200,
          json_ok |-> TRUE, setcookie |-> sc]

ErrorStatuses == {st \in Statuses : st >= 400}

\* one turn of the while loop: one list_aps call, sent through
\* client.request, and what the loop does with its response (the request
\* and its answer are bound once, as the call computes them once)
GetAllApsLoop ==
    /\ pc = "loop"
    /\ client = "open"
    /\ Len(reqs) < MaxReq + MaxDevices
    /\ server.mode = "any" => Len(reqs) < MaxReq
    /\ IF PageExc(passed) # "none"
       THEN /\ pc' = "raised"
            /\ all_devices' = <<>>
            /\ last' = Call("get_all_aps", <<passed>>, "None", PageExc(passed), <<>>,
                            TransportFailure, "none", "none")
            /\ UNCHANGED <<reqs, pages, startindex, cookies, file>>
       ELSE
        \E resp \in ServerResponses(server, startindex, pagesize),
           sc \in ServerSetCookies(server), st \in ErrorStatuses :
        \E keywords \in {PageRequest(startindex, pagesize, passed)},
           answer \in {PageAnswer(resp, sc, st)} :
        \E given \in {Restrict(keywords, ListApsSignature)},
           extra \in {Restrict(keywords, DOMAIN keywords \ ListApsSignature)} :
        \E sent \in {SessionRequest(config, "GET", ApsPath,
                                    [k \in {"params", "headers"} |->
                                        IF k = "params" THEN ListApsParams(given, extra)
                                        ELSE VersionHeader])},
           exc \in {RequestExc(answer)}, jar \in {SessionSend(cookies, answer)} :
        LET devices == ManagedDevicesOf(resp) IN
        /\ reqs' = Append(reqs, keywords)
        /\ pages' = Append(pages, resp)
        /\ cookies' = jar
        /\ file' = RequestFile(file, jar)
        /\ last' = Call("list_aps", <<given, extra>>,
                        IF exc = "none" THEN "json" ELSE "None", exc,
                        Sent(sent, answer), answer, "none", "none")
        /\ IF Raises(resp)
           THEN /\ pc' = "raised"
                /\ all_devices' = <<>>
                /\ startindex' = startindex
           ELSE IF EmptyPage(devices)
           THEN /\ pc' = "done"
                /\ all_devices' = all_devices
                /\ startindex' = startindex
           ELSE IF ShortPage(devices, pagesize)
           THEN /\ pc' = "done"
                /\ all_devices' = Extend(all_devices, devices)
                /\ startindex' = startindex
           ELSE /\ pc' = "loop"
                /\ all_devices' = Extend(all_devices, devices)
                /\ startindex' = NextStartIndex(startindex, pagesize)
    /\ UNCHANGED <<server, pagesize, passed>>
    /\ UNCHANGED <<client, config>>
    /\ UNCHANGED <<filterVars, resourceVars, cli>>

Given(tag) ==
    [key_id |-> <<"k", tag>>, key_value |-> <<"v", tag>>, client_id |-> <<"c", tag>>,
     base_url |-> <<"u", tag, "/", "/">>]
Nothing == [key_id |-> None, key_value |-> None, client_id |-> None, base_url |-> None]

\* a client constructed from its four arguments, with no session file to load
ClientOpen ==
    /\ client = "open"
    /\ config = [Given("a") EXCEPT !.base_url = RStripSlash(Given("a").base_url)]
    /\ cookies = EmptyJar
    /\ last = [NoCall EXCEPT !.op = "construct", !.given = <<Given("a"), Nothing>>,
                             !.ret = "client"]

PagingStart(servers) ==
    /\ server \in servers
    /\ pagesize = 0
    /\ passed = NoFilters
    /\ startindex = 0
    /\ all_devices = <<>>
    /\ pc = "idle"
    /\ reqs = <<>>
    /\ pages = <<>>
    /\ ClientOpen
    /\ file = AbsentFile
    /\ FilterIdle
    /\ ResourceIdle
    /\ cli = NoCommand

InitPaging == PagingStart(Servers)

NextPaging ==
    \/ \E size \in 0..MaxPagesize : GetAllAps(size, NoFilters, NoneGiven)
    \/ GetAllApsLoop

SpecPaging == InitPaging /\ [][NextPaging]_vars

\* get_all_aps against the servers that hold a fixed list.  The loop is a
\* running Python call, so it takes its next turn: weak fairness.
InitPagingList == PagingStart({srv \in Servers : srv.mode = "list"})

SpecPagingList == InitPagingList /\ [][NextPaging]_vars /\ WF_vars(GetAllApsLoop)

-----------------------------------------------------------------------------
(* The client against an HTTP server and a file system *)

\* constructor arguments and environments: all given as arguments, all from
\* the environment, one required value missing everywhere
ConstructArgs == {Given("a"), Nothing, [Given("a") EXCEPT !.key_value = None]}
Environments == {Given("e"), Nothing}

PagingIdle ==
    /\ server = [mode |-> "any", devices |-> <<>>, setcookie |-> "keep"]
    /\ pagesize = 0
    /\ passed = NoFilters
    /\ startindex = 0
    /\ all_devices = <<>>
    /\ pc = "idle"
    /\ reqs = <<>>
    /\ pages = <<>>

\* request without keyword arguments
PlainKwargs == {[k \in {} |-> NoneBody]}

InitSession == SessionIdle /\ file \in Files /\ PagingIdle /\ FilterIdle /\ ResourceIdle /\ cli = NoCommand

NextSession ==
    \/ \E args \in ConstructArgs, env \in Environments, read_ok, unlink_ok \in BOOLEAN :
          Construct(args, env, read_ok, unlink_ok)
    \/ IsSessionActive
    \/ Login
    \/ SaveSessionCall
    \/ ClearSession

SpecSession == InitSession /\ [][NextSession]_vars

\* the same client with its requests as well: the caller's calls one after
\* the other, then one get_all_aps, which returns before anything else is
\* called, and the close
NextClient ==
    \/ pc = "idle" /\ \E read_ok, unlink_ok \in BOOLEAN :
                         Construct(Given("a"), Nothing, read_ok, unlink_ok)
    \/ pc = "idle" /\ IsSessionActive
    \/ pc = "idle" /\ Login
    \/ pc = "idle" /\ SaveSessionCall
    \/ pc = "idle" /\ ClearSession
    \/ pc = "idle" /\ \E kwargs \in PlainKwargs : Request("GET", <<"/", "test">>, kwargs)
    \/ pc = "idle" /\ Get(<<"/", "test">>, Absent)
    \/ pc = "idle" /\ Post(<<"/", "test">>, Some(SomeBody))
    \/ pc = "idle" /\ Put(<<"/", "test">>, Some(SomeBody))
    \/ pc = "idle" /\ Delete(<<"/", "test">>)
    \/ pc = "idle" /\ ListAps(NoneGiven, NoneGiven)
    \/ pc = "idle" /\ GetAllAps(1, NoFilters, NoneGiven)
    \/ GetAllApsLoop
    \/ Close

\* a server that holds one device and sets cookies on its answers
ClientServers ==
    {srv \in CookieServers : srv.mode = "list" /\ srv.devices = <<"ap1">>}

\* no session file, or the file of an earlier login
ClientFiles == {AbsentFile, Pickle([n \in {SessionCookie} |-> "s1"])}

InitClient ==
    /\ SessionIdle /\ file \in ClientFiles /\ FilterIdle /\ ResourceIdle /\ cli = NoCommand
    /\ server \in ClientServers
    /\ pagesize = 0 /\ passed = NoFilters /\ startindex = 0 /\ all_devices = <<>>
    /\ pc = "idle" /\ reqs = <<>> /\ pages = <<>>

SpecClient == InitClient /\ [][NextClient]_vars

-----------------------------------------------------------------------------
(* The constructor on every combination of given and missing values *)

ConfigFields == {"key_id", "key_value", "client_id", "base_url"}

\* arguments: each value given or not given (None), or all given and one an
\* empty string; environments: all set, none set, one not set, or only the
\* base URL set, to an empty string
GivenOrNot(tag) ==
    {[f \in ConfigFields |-> IF f \in S THEN Given(tag)[f] ELSE None] : S \in SUBSET ConfigFields}
OneEmpty(tag) == {[Given(tag) EXCEPT ![f] = <<>>] : f \in ConfigFields}

OneMissing(tag) == {[Given(tag) EXCEPT ![f] = None] : f \in ConfigFields}

AllConstructArgs == GivenOrNot("a") \cup OneEmpty("a")
AllEnvironments ==
    {Given("e"), Nothing, [Nothing EXCEPT !.base_url = <<>>]} \cup OneMissing("e")

ConstructFiles == {AbsentFile, CorruptFile, Pickle([n \in {SessionCookie} |-> "s1"])}

InitConstruct == SessionIdle /\ file \in ConstructFiles /\ PagingIdle /\ FilterIdle /\ ResourceIdle /\ cli = NoCommand

NextConstruct ==
    \E args \in AllConstructArgs, env \in AllEnvironments, read_ok, unlink_ok \in BOOLEAN :
        Construct(args, env, read_ok, unlink_ok)

SpecConstruct == InitConstruct /\ [][NextConstruct]_vars

-----------------------------------------------------------------------------
(* request, get, post, put, delete and list_aps of a constructed client *)

Methods == {"GET", "POST"}
Paths == {<<"/", "test">>}
Endpoints == {<<"/", "test">>, <<"test">>}
SomeParams == [k \in {"key"} |-> "value"]
OwnHeaders == [k \in {"Accept"} |-> "text/plain"]
Bodies == {NoneBody, EmptyBody, SomeBody}

\* the keyword arguments given to request: any of params, json, headers
RequestKwargs ==
    {kw \in UNION {[D -> {SomeParams, OwnHeaders} \cup Bodies] : D \in SUBSET {"params", "json", "headers"}} :
        /\ "params" \in DOMAIN kw => kw["params"] = SomeParams
        /\ "json" \in DOMAIN kw => kw["json"] \in Bodies
        /\ "headers" \in DOMAIN kw => kw["headers"] = OwnHeaders}

OptionalBodies == {Absent, Some(EmptyBody), Some(SomeBody)}
OptionalParams == {Absent, Some(SomeParams)}

NameContains == Filter("name", "contains", Scalar(StrAtom("Arista")))
ActiveEquals == Filter("active", "equals", Scalar([t |-> "bool", s |-> "True"]))
\* the calls of list_aps: the named arguments given, and the **kwargs
ListApsCalls ==
    << <<NoneGiven, NoneGiven>>,
       <<[startindex |-> 20, pagesize |-> 50, totalcountrequired |-> TRUE, locationid |-> 123,
          sortby |-> "name", ascending |-> FALSE, fetchradios |-> FALSE,
          populatemeshinfo |-> TRUE, populatewiredinterfaces |-> TRUE], NoneGiven>>,
       <<[locationid |-> 0], NoneGiven>>,
       <<[pagesize |-> 0, sortby |-> "boxid"], NoneGiven>>,
       <<[filters |-> AsBuilder([operator |-> "OR", filters |-> <<NameContains, ActiveEquals>>])],
         NoneGiven>>,
       <<[filters |-> AsBuilder(Builder("AND")), startindex |-> 10], NoneGiven>>,
       <<[filters |-> AsFilterList(<<ActiveEquals, NameContains>>), filter_operator |-> "OR"],
         NoneGiven>>,
       <<[filters |-> AsFilterList(<<NameContains>>)], [macaddress |-> "00:11:22:33:44:55"]>>,
       <<NoneGiven, [operator |-> "OR"]>>,
       <<[filters |-> AsFilterList(<<NameContains>>), filter_operator |-> "OR", pagesize |-> 5],
         [filter |-> <<Str(ActiveEquals)>>, operator |-> "AND", active |-> "true"]>> >>

InitRequest == SessionIdle /\ file = AbsentFile /\ PagingIdle /\ FilterIdle /\ ResourceIdle /\ cli = NoCommand

NextRequest ==
    \/ \E env \in Environments : Construct(Given("a"), env, TRUE, TRUE)
    \/ \E method \in Methods, path \in Paths, kwargs \in RequestKwargs :
          Request(method, path, kwargs)
    \/ \E endpoint \in Endpoints, params \in OptionalParams : Get(endpoint, params)
    \/ \E endpoint \in Endpoints, data \in OptionalBodies : Post(endpoint, data)
    \/ \E endpoint \in Endpoints, data \in OptionalBodies : Put(endpoint, data)
    \/ \E endpoint \in Endpoints : Delete(endpoint)
    \/ \E i \in 1..Len(ListApsCalls) : ListAps(ListApsCalls[i][1], ListApsCalls[i][2])

SpecRequest == InitRequest /\ [][NextRequest]_vars

-----------------------------------------------------------------------------
(* list_aps and get_all_aps with filters *)

\* the filters and filter_operator arguments of get_all_aps
FilterArgs ==
    {NoFilters,
     [filters |-> AsBuilder([operator |-> "OR", filters |-> <<NameContains, ActiveEquals>>]),
      filter_operator |-> "AND"],
     [filters |-> AsFilterList(<<ActiveEquals>>), filter_operator |-> "OR"]}

\* the **kwargs of get_all_aps: none, a named parameter of list_aps with a
\* parameter list_aps does not name, the query key operator, and a keyword
\* get_all_aps passes itself
PageKwargs ==
    {NoneGiven,
     [sortby |-> "name", macaddress |-> "00:11:22:33:44:55"],
     [operator |-> "AND"],
     [startindex |-> 5]}

\* a server that holds three devices
ListingServers ==
    {srv \in CookieServers : srv.mode = "list" /\ srv.devices = <<"ap1", "ap2", "ap1">>}

InitListing == PagingStart(ListingServers)

\* a call of list_aps by the caller: get_all_aps returns before the caller
\* makes its next call
ListingListAps ==
    /\ pc # "loop"
    /\ \E i \in 1..Len(ListApsCalls) : ListAps(ListApsCalls[i][1], ListApsCalls[i][2])

NextListing ==
    \/ \E env \in Environments : Construct(Given("a"), env, TRUE, TRUE)
    \/ ListingListAps
    \/ \E size \in 1..MaxPagesize, args \in FilterArgs, kwargs \in PageKwargs :
          GetAllAps(size, args, kwargs)
    \/ GetAllApsLoop

SpecListing == InitListing /\ [][NextListing]_vars

-----------------------------------------------------------------------------
(* The commands list-aps and get-all-aps of the command line (main.py) *)

Commands == {"list-aps", "get-all-aps"}

\* What list-aps hands to list_aps: its options, the FilterBuilder of its
\* --filter options if there are any, and --active, --model, --name.
CliOptions ==
    [pagesize |-> 10, startindex |-> 0, totalcountrequired |-> FALSE, sortby |-> "boxid",
     ascending |-> TRUE]

CliListApsCalls ==
    << <<CliOptions, NoneGiven>>,
       <<Update(CliOptions,
                [k \in {"filters"} |->
                    AsBuilder([operator |-> "AND", filters |-> <<NameContains>>])]),
         [active |-> TRUE]>> >>

\* What get-all-aps hands to get_all_aps: the FilterBuilder or None.
\* fb.add(property_name, operator, value): the value is the text after the
\* second colon of a --filter option; --filter-operator is the builder's
\* operator, and filter_operator is left at its default.
ActiveEqualsText == Filter("active", "equals", Scalar(StrAtom("True")))

CliFilterArgs ==
    {NoFilters,
     [filters |-> AsBuilder([operator |-> "OR", filters |-> <<NameContains, ActiveEqualsText>>]),
      filter_operator |-> "AND"]}

\* kwargs = {}; if active is not None: kwargs['active'] = active
CliKwargs == {NoneGiven, [active |-> TRUE]}

\* if not client.is_session_active(): client.login()
\* The session is ensured when the probe said True, or login returned.
AfterProbeOrLogin == last.op \in {"is_session_active", "login"}
SessionEnsured ==
    \/ last.op = "is_session_active" /\ last.ret = "True"
    \/ last.op = "login" /\ last.exc = "none"

\* with CVCueClient() as client: the constructor takes no argument; when it
\* raises, the command prints the error and exits without a client.
CliEnter ==
    /\ cli \in Commands
    /\ client = "none" /\ last.op = "none"
    /\ \E env \in Environments, read_ok, unlink_ok \in BOOLEAN :
          Construct(Nothing, env, read_ok, unlink_ok)

CliEnsureSession ==
    /\ cli \in Commands
    /\ last.op = "construct"
    /\ IsSessionActive

CliLogin ==
    /\ cli \in Commands
    /\ last.op = "is_session_active" /\ last.ret = "False"
    /\ Login

\* response = client.managed_devices.list_aps(...)
CliListAps ==
    /\ cli = "list-aps"
    /\ SessionEnsured
    /\ \E i \in 1..Len(CliListApsCalls) : ListAps(CliListApsCalls[i][1], CliListApsCalls[i][2])

\* devices = client.managed_devices.get_all_aps(pagesize=pagesize, filters=fb, ...)
CliGetAllAps ==
    /\ cli = "get-all-aps"
    /\ client = "open" /\ SessionEnsured
    /\ pc = "idle"
    /\ \E size \in 1..MaxPagesize, args \in CliFilterArgs, kwargs \in CliKwargs :
          GetAllAps(size, args, kwargs)

CliGetAllApsLoop ==
    /\ cli = "get-all-aps"
    /\ client = "open"
    /\ GetAllApsLoop

\* The ways out of the with block: the output is printed, login or the device
\* request raised (except Exception: exit 1), or a --filter option is not
\* property:operator:value (sys.exit(1) before the device request).
CliLeaves ==
    \/ last.op = "login" /\ last.exc # "none"
    \/ cli = "list-aps" /\ last.op = "list_aps"
    \/ pc \in {"done", "raised"}
    \/ SessionEnsured /\ pc = "idle"

\* CVCueClient.__exit__: self.close()
CliExit ==
    /\ cli \in Commands
    /\ CliLeaves
    /\ Close

\* the session file the command finds: none, an unparseable one, or the
\* one an earlier login saved
CliFiles == {AbsentFile, CorruptFile, Pickle([n \in {SessionCookie} |-> "s1"])}

InitCli ==
    /\ SessionIdle /\ file \in CliFiles /\ FilterIdle /\ ResourceIdle
    /\ cli \in Commands
    /\ server \in ListingServers
    /\ pagesize = 0 /\ passed = NoFilters /\ startindex = 0 /\ all_devices = <<>>
    /\ pc = "idle" /\ reqs = <<>> /\ pages = <<>>

NextCli ==
    \/ CliEnter
    \/ CliEnsureSession
    \/ CliLogin
    \/ CliListAps
    \/ CliGetAllAps
    \/ CliGetAllApsLoop
    \/ CliExit

\* The command is a running process: it takes its next step.
SpecCli == InitCli /\ [][NextCli]_vars /\ WF_vars(NextCli)

-----------------------------------------------------------------------------
(* Filter on its own *)

Properties == {"name", "active"}
Operators == VALID_OPERATORS \cup {"invalid_operator", "=", "Equals"}

InitFilter == SessionIdle /\ file = AbsentFile /\ PagingIdle /\ FilterIdle /\ ResourceIdle /\ cli = NoCommand

NextFilter ==
    \/ \E property \in Properties, operator \in Operators, value \in PyValues :
          NewFilter(property, operator, value)
    \/ Serialize

SpecFilter == InitFilter /\ [][NextFilter]_vars

-----------------------------------------------------------------------------
(* FilterBuilder on its own *)

BuilderOperators == {"AND", "OR", "and", "XOR"}
AddOperators == {"contains", "equals", "invalid_operator"}
AddValues == {Scalar(StrAtom("Arista")), List(<<[t |-> "bool", s |-> "True"]>>)}

InitBuilder == SessionIdle /\ file = AbsentFile /\ PagingIdle /\ FilterIdle /\ ResourceIdle /\ cli = NoCommand

NextBuilder ==
    \/ \E operator \in BuilderOperators : NewBuilder(operator)
    \/ \E property \in Properties, operator \in AddOperators, value \in AddValues :
          Add(property, operator, value)
    \/ \E method \in DOMAIN SugarOperator : Sugar(method, "name", Scalar(StrAtom("Arista")))
    \/ ToParamsCall

SpecBuilder == InitBuilder /\ [][NextBuilder]_vars

-----------------------------------------------------------------------------
(* The resources of two clients on their own *)

InitResource == SessionIdle /\ file = AbsentFile /\ PagingIdle /\ FilterIdle /\ ResourceIdle /\ cli = NoCommand

NextResource ==
    \/ \E r \in Registrations : RegisterResource(r[1], r[2])
    \/ \E c \in ClientIds, name \in AccessedNames : GetAttr(c, name)

SpecResource == InitResource /\ [][NextResource]_vars

-----------------------------------------------------------------------------
(* Properties of get_all_aps *)

RECURSIVE Flatten(_)
\* the item lists of a sequence of responses, concatenated in order
Flatten(resps) ==
    IF resps = <<>> THEN <<>>
    ELSE Flatten(SubSeq(resps, 1, Len(resps) - 1)) \o ManagedDevicesOf(resps[Len(resps)])

ListCall == server.mode = "list" /\ pagesize >= 1 /\ pc # "idle"

\* C1: for every pagesize >= 1 and every server that holds a fixed list of N
\* devices and answers (startindex, pagesize) with the slice of that list,
\* get_all_aps terminates (a running call always comes to return, and never
\* raises) and returns exactly the N devices, each once, in server order.
C1_ListServerReturnsAll ==
    /\ [](ListCall /\ pc = "done" => all_devices = server.devices)
    /\ [](ListCall => pc # "raised")
    /\ (ListCall /\ pc = "loop") ~> (pc = "done")

C1_Witness ==
    /\ ListCall /\ pc = "done"
    /\ Len(server.devices) = MaxDevices
    /\ Len(reqs) >= 3
    /\ \E i, j \in 1..Len(all_devices) : all_devices[i] # all_devices[j]

\* C2: in one get_all_aps call, whatever the server returns, the k-th request
\* carries startindex = (k-1) * pagesize (and the call's pagesize), and the
\* list accumulated, which is the list returned, is the concatenation of the
\* item lists of the fetched pages in request order.
C2_StartIndexAndConcatenation ==
    /\ Len(pages) = Len(reqs)
    /\ \A k \in 1..Len(reqs) : reqs[k] = PageRequest((k - 1) * pagesize, pagesize, passed)
    /\ pc \in {"loop", "done"} => all_devices = Flatten(pages)

C2_Witness ==
    /\ server.mode = "any" /\ pc = "done" /\ pagesize >= 1
    /\ Len(reqs) = 3
    /\ Len(ManagedDevicesOf(pages[1])) > pagesize
    /\ ManagedDevicesOf(pages[1]) # ManagedDevicesOf(pages[2])
    /\ Len(all_devices) > 3

\* a page after which no request may follow: zero items, no item
\* list at all, or fewer than pagesize items
StopPage(resp) ==
    /\ ~Raises(resp)
    /\ \/ Len(ManagedDevicesOf(resp)) = 0
       \/ Len(ManagedDevicesOf(resp)) < pagesize

\* a page holding exactly pagesize items
FullPage(resp) == resp.kind = "ok" /\ Len(resp.items) = pagesize

NoRequestAfterStopPage ==
    \A k \in 1..Len(pages) : StopPage(pages[k]) => k = Len(reqs) /\ pc = "done"

\* a list server whose collection is a positive multiple of pagesize costs
\* one extra trailing request, answered by an empty page
TrailingRequest ==
    (/\ ListCall /\ pc = "done"
     /\ Len(server.devices) >= 1
     /\ Len(server.devices) % pagesize = 0)
    => /\ Len(reqs) = (Len(server.devices) \div pagesize) + 1
       /\ pages[Len(pages)] = OkPage(<<>>)

\* C3 as stated: no further request after the first page with zero items, no
\* item list or fewer than pagesize items; always one more request after a
\* page holding exactly pagesize items; hence one trailing request, answered
\* by an empty page, for a collection that is a positive multiple of pagesize.
C3_AsStated ==
    /\ NoRequestAfterStopPage
    /\ \A k \in 1..Len(pages) :
          FullPage(pages[k]) => (k < Len(reqs) \/ pc = "loop")
    /\ TrailingRequest

\* C3, amended: the same, with the "one more request" half for pagesize >= 1:
\* when pagesize is 0 the page holding exactly pagesize items is the page of
\* zero items, and it ends the loop.
C3_StopAndContinue ==
    /\ NoRequestAfterStopPage
    /\ \A k \in 1..Len(pages) :
          (FullPage(pages[k]) /\ pagesize >= 1) => (k < Len(reqs) \/ pc = "loop")
    /\ (pc = "loop" /\ Len(reqs) < MaxReq) => ENABLED GetAllApsLoop
    /\ TrailingRequest

C3_Witness ==
    /\ ListCall /\ pc = "done"
    /\ Len(server.devices) = 2 * pagesize
    /\ pagesize = 2
    /\ Len(reqs) = 3

\* every page the server has returned to this call holds exactly pagesize items
AllPagesFull == \A k \in 1..Len(pages) : FullPage(pages[k])

\* C4 as stated: for every pagesize >= 0, while every page holds exactly
\* pagesize items get_all_aps does not return.
C4_AsStated == (pc # "idle" /\ AllPagesFull) => pc # "done"

\* C4, amended: for every pagesize >= 1, while every page holds exactly
\* pagesize items get_all_aps neither returns nor raises: the call is still in
\* its loop, about to request startindex = (requests so far) * pagesize.
C4_FullPagesNeverReturn ==
    (pc # "idle" /\ pagesize >= 1 /\ AllPagesFull)
    => /\ pc = "loop"
       /\ startindex = Len(reqs) * pagesize
       /\ Len(reqs) < MaxReq => ENABLED GetAllApsLoop

C4_Witness ==
    /\ server.mode = "any" /\ pc = "loop" /\ pagesize >= 2
    /\ AllPagesFull
    /\ Len(reqs) = MaxReq

\* a page request that failed: an error status or a transport failure
FailedPage(resp) == resp.kind = "http_error" \/ resp.kind = "transport_error"

\* After a failed page request the call issues no other request.
NoRequestAfterFailure == pc = "raised" => Len(reqs') <= Len(reqs)

\* C28: the page request that fails is the last one of the call, the call
\* ends by raising, nothing of what the earlier pages held is returned, and
\* no page request follows.
C28_FailurePropagates ==
    /\ [](\A k \in 1..Len(pages) :
             FailedPage(pages[k])
             => /\ k = Len(pages)
                /\ pc = "raised"
                /\ all_devices = <<>>)
    /\ [](pc = "raised" => (pages # <<>> /\ FailedPage(pages[Len(pages)])))
    /\ [][NoRequestAfterFailure]_vars

\* Two pages of devices came back and the third request met a transport
\* failure.
C28_Witness ==
    /\ Len(pages) = 3
    /\ pages[1].kind = "ok" /\ pages[1].items # <<>>
    /\ pages[2].kind = "ok" /\ pages[2].items # <<>>
    /\ pages[3].kind = "transport_error"
    /\ pc = "raised" /\ all_devices = <<>>

-----------------------------------------------------------------------------
(* Properties of the session lifecycle *)

HasSessionCookie(jar) == SessionCookie \in DOMAIN jar

IsProbe == last.op = "is_session_active"

\* C5: when the client's cookie set holds no JSESSIONID cookie,
\* is_session_active returns false and issues no HTTP request at all.
C5_NoCookieNoRequest ==
    (IsProbe /\ ~HasSessionCookie(last.cookies0))
    => /\ last.ret = "False"
       /\ last.exc = "none"
       /\ last.sent = <<>>
       /\ last.got = "none"

C5_Witness ==
    /\ IsProbe
    /\ last.cookies0 # EmptyJar
    /\ ~HasSessionCookie(last.cookies0)
    /\ last.ret = "False"

\* C6: when a session cookie is present, is_session_active issues exactly one
\* status probe (GET /session) and returns true if and only if the probe
\* answers with status exactly 200; for every other status and for every
\* transport failure it returns false, and it raises nothing.
C6_ProbeDecides ==
    (IsProbe /\ HasSessionCookie(last.cookies0))
    => /\ last.sent = <<[method |-> "GET", path |-> <<"/", "session">>]>>
       /\ last.got \in {"http", "transport"}
       /\ last.exc = "none"
       /\ last.ret \in {"True", "False"}
       /\ last.ret = "True" <=> (last.got = "http" /\ last.status = 200)

C6_Witness ==
    /\ IsProbe /\ HasSessionCookie(last.cookies0)
    /\ last.got = "http" /\ last.status = 204
    /\ last.ret = "False"

\* C7 as stated: whatever is_session_active returns, the client's cookie set
\* and the session file are the same after the call as before it.
C7_AsStated == IsProbe => (cookies = last.cookies0 /\ file = last.file0)

\* the names a response's Set-Cookie headers set or expire
Touched(d) == {n \in CookieNames : d[n] # "keep"}

\* C7, amended: is_session_active never purges a stale session: whatever it
\* returns, the session file is the same after the call as before it, and
\* the cookie set is the same except for the cookies the probe's response
\* itself sets or expires (so it is unchanged when no probe is sent, when the
\* probe fails in transport and when the response sets no cookie).
C7_ProbeNeverPurges ==
    IsProbe
    => /\ file = last.file0
       /\ \A n \in CookieNames \ Touched(last.setcookie) :
            /\ n \in DOMAIN cookies <=> n \in DOMAIN last.cookies0
            /\ n \in DOMAIN cookies => cookies[n] = last.cookies0[n]
       /\ \A n \in Touched(last.setcookie) :
            IF last.setcookie[n] = "expire"
            THEN n \notin DOMAIN cookies
            ELSE n \in DOMAIN cookies /\ cookies[n] = SetCookieValue(last.setcookie[n])
       /\ last.got # "http" => (cookies = last.cookies0 /\ last.setcookie = KeepCookies)

C7_Witness ==
    /\ IsProbe /\ last.ret = "False"
    /\ last.got = "http" /\ last.status = 401
    /\ last.setcookie = KeepCookies
    /\ HasSessionCookie(cookies) /\ cookies = last.cookies0
    /\ file.kind = "jar" /\ HasSessionCookie(file.jar)

IsLogin == last.op = "login"

\* the login request failed: a transport failure or an HTTP error status
LoginRequestFailed ==
    \/ last.got = "transport"
    \/ last.got = "http" /\ last.status >= 400

LoginFailureKeepsFile ==
    /\ (IsLogin /\ LoginRequestFailed) => last.exc # "none"
    /\ (IsLogin /\ last.exc # "none") => (file = last.file0 /\ last.save = "none")

\* C8 as stated: login persists the cookie set if and only if the login
\* request succeeds: after a successful login the file holds the client's
\* current cookies; after a failed one the error is propagated and the file
\* is exactly as it was.
C8_AsStated ==
    /\ (IsLogin /\ last.exc = "none") => file = [kind |-> "jar", jar |-> cookies]
    /\ LoginFailureKeepsFile

\* C8, amended: login saves if and only if the login request succeeds: after
\* a successful login the file holds the client's current cookies unless the
\* save itself met an I/O error, which is not raised (the file is then as it
\* was when it could not be opened, and unparseable when the write failed
\* after it was opened); after a failed login the error is propagated and the
\* file is exactly as it was.
C8_LoginPersistsOnSuccess ==
    /\ (IsLogin /\ last.exc = "none")
       => /\ last.ret = "json"
          /\ last.save \in {"ok", "open_fails", "dump_fails"}
          /\ last.save = "ok" => file = [kind |-> "jar", jar |-> cookies]
          /\ last.save = "open_fails" => file = last.file0
          /\ last.save = "dump_fails" => file.kind = "corrupt"
    /\ LoginFailureKeepsFile

C8_Witness ==
    /\ IsLogin /\ last.exc = "none" /\ last.save = "ok"
    /\ HasSessionCookie(cookies)
    /\ last.file0.kind = "absent"
    /\ file = [kind |-> "jar", jar |-> cookies]

Authenticated ==
    /\ HasSessionCookie(cookies)
    /\ file.kind = "jar" /\ HasSessionCookie(file.jar)
    /\ file.jar[SessionCookie] = cookies[SessionCookie]

LoginFromUnauthenticated ==
    IsLogin /\ last.exc = "none" /\ ~HasSessionCookie(last.cookies0)

\* C9 as stated: from the Unauthenticated state a login() that returns
\* successfully leaves the session cookie in the cookie set and in the file.
C9_AsStated == LoginFromUnauthenticated => Authenticated

\* C9, amended: from the Unauthenticated state, a login() that returns
\* successfully leaves the session cookie in the cookie set exactly when the
\* login response set it, with the value the jar stores for it; the cookie
\* set is then written to the session file, so that the cookie is in the file
\* as well.  When the save meets an I/O error, which is not raised, the
\* cookie set still holds what the response set and the file is as it was
\* (it could not be opened) or unparseable (the write failed).
C9_LoginAuthenticates ==
    LoginFromUnauthenticated
    => /\ HasSessionCookie(cookies)
          <=> last.setcookie[SessionCookie] \in HeaderValues(SessionCookie)
       /\ HasSessionCookie(cookies)
          => cookies[SessionCookie] = SetCookieValue(last.setcookie[SessionCookie])
       /\ (HasSessionCookie(cookies) /\ last.save = "ok") => Authenticated
       /\ last.save = "ok" => (file.kind = "jar" /\ file.jar = cookies)
       /\ last.save = "open_fails" => file = last.file0
       /\ last.save = "dump_fails" => file.kind = "corrupt"
       /\ last.save \in {"ok", "open_fails", "dump_fails"}

C9_Witness ==
    /\ LoginFromUnauthenticated
    /\ last.file0.kind = "absent"
    /\ Authenticated

IsConstruct == last.op = "construct"

\* every required value is given as an argument or in the environment
ConfigGiven ==
    \A f \in {"key_id", "key_value", "client_id", "base_url"} :
        \E src \in {1, 2} : last.given[src][f] \notin {None, <<>>}

\* the file was present and could not be loaded: the constructor tried to
\* remove it
LoadFailed == last.unlink # "none"

ConstructNeverFailsOnFile ==
    (IsConstruct /\ ConfigGiven)
    => /\ last.exc = "none" /\ client = "open"
       /\ last.file0.kind = "absent" => (cookies = EmptyJar /\ file.kind = "absent")
       /\ last.file0.kind = "corrupt" => LoadFailed
       /\ LoadFailed => cookies = EmptyJar
       /\ ~LoadFailed /\ last.file0.kind = "jar"
          => (DOMAIN cookies = DOMAIN last.file0.jar /\ file = last.file0)

\* C10 as stated: constructing a client never fails because of the session
\* file: an absent file gives an empty cookie set and stays absent; a file
\* that cannot be parsed gives an empty cookie set and has been removed.
C10_AsStated ==
    /\ ConstructNeverFailsOnFile
    /\ (IsConstruct /\ ConfigGiven /\ last.file0.kind = "corrupt") => file.kind = "absent"

\* C10, amended: the same, and a file that cannot be parsed has been removed
\* unless the removal itself fails: that failure is swallowed, construction
\* still succeeds with an empty cookie set, and the file is left as it was.
C10_ConstructSurvivesFile ==
    /\ ConstructNeverFailsOnFile
    /\ (IsConstruct /\ ConfigGiven /\ LoadFailed)
       => /\ last.unlink = "ok" => file.kind = "absent"
          /\ last.unlink = "failed" => file = last.file0

C10_Witness ==
    /\ IsConstruct /\ ConfigGiven
    /\ last.file0.kind = "corrupt"
    /\ last.unlink = "ok"
    /\ client = "open" /\ cookies = EmptyJar /\ file.kind = "absent"

IsSave == last.op = "save_session"
IsClear == last.op = "clear_session"
Constructed == IsConstruct /\ last.exc = "none" /\ client = "open"

\* a client is constructed right after a _save_session on the same file
ConstructedAfterSave == Constructed /\ last.prev.op = "save_session"

HasEscapedQuote(v) == v \in {QuotedTwice, QuotedOnce}

ConstructedAfterClear ==
    Constructed /\ last.prev.op = "clear_session" /\ last.prev.unlink # "failed"

\* C12: clear_session deletes the session file when it is present and does
\* nothing when it is absent; after a clear_session whose deletion did not
\* fail the file does not exist, and a client constructed next on that file
\* starts with an empty cookie set.
C12_ClearDeletes ==
    /\ (IsClear /\ ~Exists(last.file0))
       => (last.unlink = "none" /\ file = last.file0 /\ cookies = last.cookies0
           /\ last.sent = <<>>)
    /\ (IsClear /\ Exists(last.file0)) => last.unlink \in {"ok", "failed"}
    /\ (IsClear /\ last.unlink # "failed") => ~Exists(file)
    /\ ConstructedAfterClear
       => (~Exists(last.file0) /\ cookies = EmptyJar /\ ~Exists(file))

C12_Witness ==
    /\ ConstructedAfterClear /\ last.prev.unlink = "ok"
    /\ HasSessionCookie(last.cookies0)
    /\ cookies = EmptyJar /\ ~Exists(file)

\* the save of the session file met an I/O error
SaveFailed == last.save \in {"open_fails", "dump_fails"}

\* C13: an I/O failure while saving or clearing the session file is never
\* raised to the caller: a login whose request succeeded and whose save
\* failed returns the login response and keeps the cookies of the exchange
\* in memory, a _save_session that failed returns normally, and a
\* clear_session whose deletion failed returns normally.
C13_FileFailuresNotRaised ==
    /\ (IsLogin /\ SaveFailed)
       => /\ last.exc = "none" /\ last.ret = "json"
          /\ cookies = JarUpdate(last.cookies0, last.setcookie)
    /\ (IsSave /\ SaveFailed) => (last.exc = "none" /\ cookies = last.cookies0)
    /\ (IsClear /\ last.unlink = "failed")
       => (last.exc = "none" /\ last.ret = "None" /\ file = last.file0)

C13_Witness ==
    /\ IsLogin /\ last.save = "dump_fails" /\ last.ret = "json"
    /\ ~HasSessionCookie(last.cookies0) /\ HasSessionCookie(cookies)
    /\ file.kind = "corrupt"

\* a required value is missing: given neither as an argument nor in the
\* environment
Missing(f) == last.given[1][f] = None /\ last.given[2][f] = None
SomeMissing == \E f \in {"key_id", "key_value", "client_id", "base_url"} : Missing(f)

\* C20: constructing a client with any of key id, key value, client id or
\* base URL missing fails with an error and creates no client; the failed
\* construction reads, writes and deletes no session file and issues no HTTP
\* request.
C20_MissingConfigFails ==
    (IsConstruct /\ SomeMissing)
    => /\ last.exc \in {"ValueError", "AttributeError"}
       /\ last.ret = "None" /\ client = "none" /\ config = NoConfig
       /\ cookies = EmptyJar
       /\ file = last.file0 /\ last.save = "none" /\ last.unlink = "none"
       /\ last.sent = <<>>

C20_Witness ==
    /\ IsConstruct /\ Missing("base_url")
    /\ \A f \in {"key_id", "key_value", "client_id"} : ~Missing(f)
    /\ last.exc = "AttributeError" /\ client = "none"
    /\ last.file0.kind = "jar" /\ file = last.file0 /\ cookies = EmptyJar

\* the value the client holds for a value it was given: the base URL without
\* its trailing slashes, any other value as it is
Held(f, v) == IF f = "base_url" THEN RStripSlash(v) ELSE v

\* C21 as stated: for each of key id, key value, client id and base URL,
\* whenever the caller passes an explicit constructor argument the client
\* uses that argument, whatever the environment variable holds; the
\* environment variable is used only when no argument is passed.
C21_AsStated ==
    Constructed
    => \A f \in {"key_id", "key_value", "client_id", "base_url"} :
          config[f] = IF last.given[1][f] # None
                      THEN Held(f, last.given[1][f])
                      ELSE Held(f, last.given[2][f])

\* C21, amended: whenever the caller passes a non-empty constructor argument
\* the client uses that argument, whatever the environment variable holds;
\* the environment variable is used when no argument is passed and also when
\* the argument passed is an empty string.
C21_ArgumentBeforeEnvironment ==
    Constructed
    => \A f \in {"key_id", "key_value", "client_id", "base_url"} :
          config[f] = IF last.given[1][f] \notin {None, <<>>}
                      THEN Held(f, last.given[1][f])
                      ELSE Held(f, last.given[2][f])

C21_Witness ==
    /\ Constructed
    /\ last.given[1].key_id = <<"k", "a">> /\ last.given[1].base_url = None
    /\ last.given[2] = Given("e")
    /\ config.key_id = <<"k", "a">> /\ config.base_url = <<"u", "e">>

\* C26: clear_session leaves the client's cookie set as it was, so on a client
\* that held the session cookie when clear_session was called the next
\* is_session_active sends the status probe.
C26_ClearKeepsCookies ==
    /\ IsClear => (cookies = last.cookies0 /\ client = "open")
    /\ (last.op = "is_session_active" /\ last.prev.op = "clear_session" /\ last.prev.held)
        => (Len(last.sent) = 1 /\ last.sent[1] = ProbeRequest)

\* clear_session deleted the file of a client that held the session cookie,
\* and the is_session_active that followed sent the probe and was answered 200.
C26_Witness ==
    /\ last.op = "is_session_active"
    /\ last.prev.op = "clear_session" /\ last.prev.unlink = "ok" /\ last.prev.held
    /\ last.file0 = AbsentFile
    /\ Len(last.sent) = 1 /\ last.ret = "True"

\* The operations that send a device or API request, and close.  Each page
\* request of get_all_aps is a list_aps call.
FrameOps == {"request", "get", "post", "put", "delete", "list_aps", "close"}

\* A step that changes the session file is a login whose request succeeded or
\* a save, or it deletes the file and is a clear_session or a construction
\* whose load failed.
FileStep ==
    file' # file =>
        \/ last'.op = "login" /\ last'.exc = "none"
        \/ last'.op = "save_session"
        \/ last'.op = "clear_session" /\ file' = AbsentFile
        \/ last'.op = "construct" /\ last'.unlink = "ok" /\ file' = AbsentFile

\* C27: request, get, post, put, delete, list_aps (and with it every page
\* request of get_all_aps) and close leave the session file as it was, even
\* when the exchange changes the cookie set; the file is written only by
\* login and save, and deleted only by clear_session and a failed load.
C27_FileFrame ==
    /\ [](last.op \in FrameOps => file = last.file0)
    /\ [][FileStep]_vars

\* The second page request of get_all_aps got a new session cookie from the
\* server while the file held the cookies saved earlier: the cookie set
\* changed, the file did not.
C27_Witness ==
    /\ last.op = "list_aps"
    /\ Len(reqs) = 2 /\ pc = "done" /\ last.given[1] = reqs[2]
    /\ cookies # last.cookies0
    /\ file.kind = "jar" /\ file = last.file0
    /\ file.jar # cookies

-----------------------------------------------------------------------------
(* Properties of request and list_aps *)

\* the call went through request: request itself or a verb wrapper
IsRequestCall == last.op \in {"request", "get", "post", "put", "delete"}
IsListAps == last.op = "list_aps"

Is2xx(status) == status >= 200 /\ status < 300

\* C14 as stated: request, and get, post, put, delete which delegate to it,
\* raises an error for every response whose HTTP status is not 2xx and
\* returns the parsed JSON body for every response whose status is 2xx.
C14_AsStated ==
    (IsRequestCall /\ last.got = "http")
    => /\ ~Is2xx(last.status) => last.exc # "none"
       /\ Is2xx(last.status) => (last.exc = "none" /\ last.ret = "json")

\* the request as it was handed to the HTTP session
SentRequest == last.sent[1]

\* a request without a body: no json argument, or json=None
Bodiless(r) == "json" \notin DOMAIN r.kwargs \/ r.kwargs["json"] = NoneBody

CarriesContentType(r) ==
    /\ "headers" \in DOMAIN r.kwargs
    /\ "Content-Type" \in DOMAIN r.kwargs["headers"]
    /\ r.kwargs["headers"]["Content-Type"] = "application/json"

\* C15 as stated: every HTTP request issued through request() that has no
\* body carries the header Content-Type: application/json, the device-list
\* GET of list_aps included, which carries it together with its Version
\* header.
C15_AsStated ==
    ((IsRequestCall \/ IsListAps) /\ Bodiless(SentRequest)) => CarriesContentType(SentRequest)

\* the defaults of the device-list query
C16_Defaults ==
    [startindex |-> 0, pagesize |-> 10, totalcountrequired |-> FALSE, sortby |-> "boxid",
     ascending |-> TRUE, fetchradios |-> TRUE, populatemeshinfo |-> FALSE,
     populatewiredinterfaces |-> FALSE]

\* C16: each list_aps call issues exactly one GET to /manageddevices/aps
\* with the header Version: 19 and returns the response as it came; the
\* query parameters always contain the eight named parameters with the
\* caller's values or the defaults, and contain locationid only when the
\* caller supplied one.
C16_ListApsRequest ==
    IsListAps
    => LET given == last.given[1]
           params == SentRequest.kwargs["params"]
       IN /\ Len(last.sent) = 1
          /\ SentRequest.method = "GET"
          /\ SentRequest.url = config.base_url \o <<"/", "manageddevices", "/", "aps">>
          /\ SentRequest.kwargs["headers"]["Version"] = "19"
          /\ last.ret = (IF last.exc = "none" THEN "json" ELSE "None")
          /\ \A k \in DOMAIN C16_Defaults :
                /\ k \in DOMAIN params
                /\ params[k] = IF k \in DOMAIN given THEN given[k] ELSE C16_Defaults[k]
          /\ "locationid" \in DOMAIN params <=> "locationid" \in DOMAIN given
          /\ "locationid" \in DOMAIN given => params["locationid"] = given["locationid"]

C16_Witness ==
    /\ IsListAps /\ last.exc = "none" /\ last.ret = "json"
    /\ last.given[1] = ListApsCalls[2][1]
    /\ SentRequest.kwargs["params"]["locationid"] = 123
    /\ SentRequest.kwargs["params"]["pagesize"] = 50
    /\ DOMAIN SentRequest.kwargs["headers"] = {"Version"}

\* the operations of the client and its resource that send requests
SendingOps ==
    {"request", "get", "post", "put", "delete", "login", "list_aps", "is_session_active"}

\* the request of the call failed: a transport failure or an error status
RequestFailed == last.got = "transport" \/ (last.got = "http" /\ last.status >= 400)

\* C22: no operation retries: each call of request, get, post, put, delete,
\* login, list_aps or is_session_active sends at most one HTTP request, and
\* a request that failed, by an error status or a transport failure, is not
\* sent again.
C22_NoRetries ==
    last.op \in SendingOps
    => /\ Len(last.sent) <= 1
       /\ last.got # "none" => Len(last.sent) = 1
       /\ RequestFailed => Len(last.sent) = 1

C22_Witness ==
    /\ last.op = "post" /\ last.got = "http" /\ last.status = 500
    /\ last.exc = "HTTPError"
    /\ Len(last.sent) = 1 /\ last.sent[1].method = "POST"

\* The filters argument, if one was given.
HasFilters(given) == "filters" \in DOMAIN given

\* The named parameters of list_aps: Python binds a keyword of the call to
\* them, so none of them is ever among the extras.
NamedParams == DOMAIN ListApsDefaults \cup {"locationid", "filters", "filter_operator"}

\* C29: every extra keyword parameter of list_aps is in the query with the
\* caller's value, also when it is named filter or operator and the filters
\* argument gave that key another value; and startindex, pagesize, sortby,
\* the flags and locationid are what they are without the extras.
C29_ExtrasMergedLast ==
    IsListAps =>
        LET given == last.given[1]
            extra == last.given[2]
            params == SentRequest.kwargs["params"]
            plain == ListApsParams(given, NoneGiven)
        IN
        /\ DOMAIN extra \cap NamedParams = {}
        /\ DOMAIN params = DOMAIN plain \cup DOMAIN extra
        /\ \A k \in DOMAIN extra : params[k] = extra[k]
        /\ \A k \in DOMAIN plain \ DOMAIN extra : params[k] = plain[k]
        /\ \A k \in DOMAIN ListApsDefaults : params[k] = Arg(given, k)

\* list_aps was given a list of one filter with OR and the extras filter,
\* operator and active: the query holds the extras' filter and AND, and the
\* pagesize of the call.
C29_Witness ==
    /\ IsListAps
    /\ {"filters", "filter_operator"} \subseteq DOMAIN last.given[1]
    /\ last.given[1]["filter_operator"] = "OR"
    /\ {"filter", "operator", "active"} \subseteq DOMAIN last.given[2]
    /\ SentRequest.kwargs["params"]["operator"] = "AND"
    /\ SentRequest.kwargs["params"]["filter"] = <<Str(ActiveEquals)>>
    /\ SentRequest.kwargs["params"]["active"] = "true"
    /\ SentRequest.kwargs["params"]["pagesize"] = 5

\* The serialized strings of a sequence of filters, in its order.
InOrder(filters, strs) ==
    /\ Len(strs) = Len(filters)
    /\ \A i \in 1..Len(filters) : strs[i] = Str(filters[i])

\* How the query `params` holds the filters of the arguments `given`.
Folded(given, params) ==
    /\ (HasFilters(given) /\ given["filters"].type = "FilterBuilder"
           /\ given["filters"].filters # <<>>)
        => /\ {"filter", "operator"} \subseteq DOMAIN params
           /\ InOrder(given["filters"].filters, params["filter"])
           /\ params["operator"] = given["filters"].operator
    /\ (HasFilters(given) /\ given["filters"].type = "list")
        => /\ {"filter", "operator"} \subseteq DOMAIN params
           /\ InOrder(given["filters"].filters, params["filter"])
           /\ params["operator"] = IF "filter_operator" \in DOMAIN given
                                    THEN given["filter_operator"] ELSE "AND"
    /\ (~HasFilters(given)
           \/ (given["filters"].type = "FilterBuilder" /\ given["filters"].filters = <<>>))
        => {"filter", "operator"} \cap DOMAIN params = {}

\* The query `params` holds under key k what the extra keyword parameters
\* give for k and, when they give nothing, what the filters are folded to.
FoldedUnder(given, extra, params, k) ==
    IF k \in DOMAIN extra
    THEN k \in DOMAIN params /\ params[k] = extra[k]
    ELSE IF ~HasFilters(given)
            \/ (given["filters"].type = "FilterBuilder" /\ given["filters"].filters = <<>>)
    THEN k \notin DOMAIN params
    ELSE /\ k \in DOMAIN params
         /\ k = "filter" => InOrder(given["filters"].filters, params[k])
         /\ k = "operator"
            => params[k] = IF given["filters"].type = "FilterBuilder"
                           THEN given["filters"].operator
                           ELSE IF "filter_operator" \in DOMAIN given
                           THEN given["filter_operator"] ELSE "AND"

FoldedUnlessExtra(given, extra, params) ==
    \A k \in {"filter", "operator"} : FoldedUnder(given, extra, params, k)

\* every page requested so far was asked with the filters, the
\* filter_operator and the extra keyword parameters get_all_aps was given
SamePassedEachPage ==
    \A k \in 1..Len(reqs) :
        /\ DOMAIN passed \subseteq DOMAIN reqs[k]
        /\ \A n \in DOMAIN passed : reqs[k][n] = passed[n]
        /\ DOMAIN reqs[k] \ DOMAIN passed = {"startindex", "pagesize", "totalcountrequired"}

\* a page request of get_all_aps is sent
PageSent == Len(reqs') = Len(reqs) + 1

\* C24 as stated: list_aps puts the filters into the query: a builder with
\* filters gives its strings in insertion order and its operator, a list
\* gives its strings in list order and the filter_operator argument, an empty
\* builder or no filters give neither key; get_all_aps passes the same
\* filters to the request of every page.
C24_AsStated ==
    /\ IsListAps => Folded(last.given[1], SentRequest.kwargs["params"])
    /\ SamePassedEachPage

\* C24, amended: the same for each of the keys filter and operator that no
\* extra keyword parameter names; a key an extra keyword parameter names
\* carries that parameter's value, whatever the filters are (and is added
\* when there are no filters).  get_all_aps passes the same filters,
\* filter_operator and extra keyword parameters to list_aps for every page,
\* and the request of every page carries them in the same way.
C24_FiltersFolded ==
    /\ [](IsListAps
          => FoldedUnlessExtra(last.given[1], last.given[2], SentRequest.kwargs["params"]))
    /\ []SamePassedEachPage
    /\ [][PageSent
          => /\ last'.op = "list_aps"
             /\ last'.given[1] = Restrict(reqs'[Len(reqs')], ListApsSignature)
             /\ last'.given[2] = Restrict(passed, DOMAIN passed \ ListApsSignature)
             /\ FoldedUnlessExtra(passed, last'.given[2],
                                  last'.sent[1].kwargs["params"])]_vars

\* get_all_aps has sent the request of its second page with a list of
\* filters, OR and the extra keyword parameter operator=AND, which the
\* request carries.
C24_Witness ==
    /\ Len(reqs) = 2 /\ IsListAps
    /\ HasFilters(passed) /\ passed["filters"].type = "list"
    /\ passed["filter_operator"] = "OR"
    /\ last.given[2] = [operator |-> "AND"]
    /\ last.given[1]["startindex"] = pagesize
    /\ SentRequest.kwargs["params"]["operator"] = "AND"
    /\ SentRequest.kwargs["params"]["filter"] = <<Str(ActiveEquals)>>

-----------------------------------------------------------------------------
(* Properties of Filter and FilterBuilder *)

IsNewFilter == out.op = "Filter" /\ out.exc = "none"

\* C17 as stated: a Filter's value is always a sequence: created from a
\* scalar v it is [v]; created from a sequence s, a list or a tuple, it is
\* s, with the same elements in the same order.
C17_AsStated ==
    IsNewFilter
    => filt.value = IF out.given.value.type = "scalar"
                    THEN <<out.given.value>>
                    ELSE Elements(out.given.value)

\* C17, amended: a Filter's value is always a list: created from a list s
\* it is s, with the same elements in the same order; created from any other
\* value v, a scalar or a sequence that is not a list such as a tuple, it is
\* the one-element list [v].
C17_ValueIsList ==
    IsNewFilter
    => filt.value = IF out.given.value.type = "list"
                    THEN Elements(out.given.value)
                    ELSE <<out.given.value>>

C17_Witness ==
    /\ IsNewFilter
    /\ out.given.value.type = "list" /\ Len(out.given.value.items) = 2
    /\ out.given.value.items[1] # out.given.value.items[2]
    /\ filt.value = Elements(out.given.value)

ApiTokens ==
    [equals |-> "=", lessThan |-> "<", greaterThan |-> ">", lessThanOrEquals |-> "<=",
     greaterThanOrEquals |-> ">=", notEquals |-> "!=", contains |-> "contains",
     notContains |-> "notcontains"]

\* the operator in the string form of a Filter: the text of the string after
\* the "operator" key
OperatorInStr(str) == str[15]

\* C18: for each of the eight operator names the serialized Filter carries
\* the fixed API token of the name, as a structured value and in its string
\* form; any other operator name fails with an error and yields no Filter.
C18_OperatorTokens ==
    /\ (out.op = "serialize" /\ out.given.operator \in DOMAIN ApiTokens)
       => /\ out.dict.operator = ApiTokens[out.given.operator]
          /\ OperatorInStr(out.str) = ApiTokens[out.given.operator]
    /\ out.op = "serialize" => out.given.operator \in DOMAIN ApiTokens
    /\ (out.op = "Filter" /\ out.given.operator \notin DOMAIN ApiTokens)
       => (out.exc = "ValueError" /\ filt = NoFilter)
    /\ (out.op = "Filter" /\ out.given.operator \in DOMAIN ApiTokens)
       => (out.exc = "none" /\ filt.operator = out.given.operator)

C18_Witness ==
    /\ out.op = "serialize" /\ out.given.operator = "notContains"
    /\ out.dict.operator = "notcontains"
    /\ out.str = <<"{", "\"", "property", "\"", ":", "\"", "name", "\"", ",",
                   "\"", "operator", "\"", ":", "\"", "notcontains", "\"", ",",
                   "\"", "value", "\"", ":", "[", "true", "]", "}">>

IsToParams == out.op = "to_params"

\* C19: to_params returns an empty parameter set when the builder holds no
\* filter; with N >= 1 filters it returns the builder's operator as operator
\* and, as filter, the sequence of the N filters' serialized strings in
\* insertion order.
C19_ToParams ==
    /\ (IsToParams /\ Len(builder.filters) = 0) => DOMAIN out.params = {}
    /\ (IsToParams /\ Len(builder.filters) >= 1)
       => /\ DOMAIN out.params = {"operator", "filter"}
          /\ out.params["operator"] = builder.operator
          /\ builder.operator \in {"AND", "OR"}
          /\ Len(out.params["filter"]) = Len(builder.filters)
          /\ \A i \in 1..Len(builder.filters) :
                out.params["filter"][i] = JsonDumps(ToDict(builder.filters[i]))

C19_Witness ==
    /\ IsToParams /\ builder.operator = "OR"
    /\ Len(builder.filters) = 2
    /\ builder.filters[1].operator = "contains" /\ builder.filters[2].operator = "equals"
    /\ out.params["filter"][1][15] = "contains" /\ out.params["filter"][2][15] = "="

-----------------------------------------------------------------------------
(* Properties of the resources of a client *)

Accessed == got.kind # "none" \/ got.exc # "none"

\* The instances held by the caches of all clients, one per client and name.
CachedAt == {<<c, n>> \in ClientIds \X AccessedNames : n \in DOMAIN resource_cache[c]}

\* What an access through __getattr__ does, for a name in the set `names`.
AccessRule(names) ==
    (Accessed /\ got.name \in names) =>
        LET cache == resource_cache[got.client] IN
        IF got.name \in DOMAIN got.before
        THEN /\ got.exc = "none"
             /\ got.value = got.before[got.name]
             /\ cache = got.before
        ELSE IF got.name \in DOMAIN got.registry0
        THEN /\ got.exc = "none"
             /\ got.kind = "resource"
             /\ got.value.client = got.client
             /\ got.value.class = got.registry0[got.name]
             /\ DOMAIN cache = DOMAIN got.before \cup {got.name}
             /\ cache[got.name] = got.value
             /\ \A n \in DOMAIN got.before : cache[n] = got.before[n]
        ELSE /\ got.exc = "AttributeError"
             /\ cache = got.before

\* No two cache entries hold the same instance.
OneInstanceEach ==
    \A x, y \in CachedAt :
        resource_cache[x[1]][x[2]].id = resource_cache[y[1]][y[2]].id => x = y

\* An entry of a cache is never replaced or removed.
CacheKept ==
    \A c \in ClientIds : \A n \in DOMAIN resource_cache[c] :
        /\ n \in DOMAIN resource_cache'[c]
        /\ resource_cache'[c][n] = resource_cache[c][n]

\* C23 as worded, for every registered name: violated by a registered name
\* that is also an attribute of the client ("close"), which ordinary lookup
\* answers without creating a resource.
C23_AsStated == AccessRule(AccessedNames)

\* C23: for a name that is not an attribute of the client, the first access to
\* a registered name creates one instance bound to that client and caches it,
\* every later access on that client returns that instance, and an access to
\* a name that is not registered raises AttributeError and leaves the cache as
\* it was.
C23_ResourceCache ==
    /\ [](AccessRule(AccessedNames \ ClientAttributes) /\ OneInstanceEach)
    /\ [][CacheKept]_vars

\* Client 2 reads test_resource a second time and gets the instance it
\* created, which is not the one client 1 holds.
C23_Witness ==
    /\ got.client = 2 /\ got.name = "test_resource"
    /\ "test_resource" \in DOMAIN got.before
    /\ got.value = got.before["test_resource"]
    /\ got.value.client = 2
    /\ "test_resource" \in DOMAIN resource_cache[1]
    /\ resource_cache[1]["test_resource"] # got.value

\* add and the convenience methods of FilterBuilder
AddingOps == {"add"} \cup DOMAIN SugarOperator

\* What one call on the builder does to it.
BuilderStep ==
    /\ (out'.op \in AddingOps /\ out'.exc = "none")
        => /\ builder'.operator = builder.operator
           /\ Len(builder'.filters) = Len(builder.filters) + 1
           /\ \A i \in 1..Len(builder.filters) : builder'.filters[i] = builder.filters[i]
           /\ builder'.filters[Len(builder'.filters)] =
                  Filter(out'.given.property, out'.given.operator, out'.given.value)
           /\ builder.id # NoObject
           /\ builder'.id = builder.id
           /\ out'.ret = builder.id
    /\ (out'.op \in AddingOps /\ out'.exc # "none")
        => (builder' = builder /\ out'.ret = NoObject)
    /\ (out'.op = "FilterBuilder" /\ out'.exc = "none")
        => /\ builder'.operator = out'.given.operator
           /\ builder'.filters = <<>>
           /\ builder'.id # builder.id
           /\ out'.ret = builder'.id
    /\ out'.op = "to_params" => builder' = builder

\* C25: the operator of a builder is the AND or OR it was constructed with,
\* add and each convenience method that succeeds appends its filter after the
\* earlier ones and returns the builder it was called on, the same object
\* and not another one; a call that fails on an invalid operator returns
\* nothing and leaves the builder as it was, and no call removes or
\* reorders a filter.
C25_BuilderKeepsOrder ==
    /\ [](builder # NoBuilder => builder.operator \in {"AND", "OR"})
    /\ [][BuilderStep]_vars

\* An add with an invalid operator has failed on an OR builder that holds the
\* two different filters of two calls that returned it.
C25_Witness ==
    /\ builder.id # NoObject /\ out.ret = NoObject
    /\ builder.operator = "OR"
    /\ Len(builder.filters) = 2
    /\ builder.filters[1] # builder.filters[2]
    /\ out.op = "add" /\ out.exc = "ValueError"

-----------------------------------------------------------------------------
(* Properties of the commands list-aps and get-all-aps *)

\* the calls of the command on its client so far
Calls == last.calls

\* the session was ensured by the calls before the device request
Ensured(t) ==
    /\ Len(t) >= 2
    /\ t[2].op = "is_session_active"
    /\ \/ t[2].ret = "True"
       \/ Len(t) >= 3 /\ t[3].op = "login" /\ t[3].exc = "none"

CommandOrder ==
    LET t == Calls IN
    /\ t # <<>> => t[1].op = "construct"
    \* the first call on the client is is_session_active
    /\ Len(t) >= 2 => t[2].op = "is_session_active"
    \* login exactly when it returned False
    /\ Len(t) >= 3 => (t[3].op = "login" <=> t[2].ret = "False")
    /\ \A i \in 1..Len(t) : t[i].op = "login" => i = 3
    \* the device requests (one of list-aps, one for each page of get-all-aps)
    \* come after that, with no other call between them
    /\ \A i \in 1..Len(t) :
          t[i].op = "list_aps"
          => LET first == IF t[2].ret = "True" THEN 3 ELSE 4 IN
             /\ Ensured(SubSeq(t, 1, i - 1))
             /\ i >= first
             /\ \A j \in first..i : t[j].op = "list_aps"
             /\ cli = "list-aps" => i = first
             /\ (t[i].exc # "none" /\ i < Len(t)) => t[i + 1].op = "close"
    /\ reqs # <<>> => Ensured(t)
    /\ cli = "get-all-aps" => Len(reqs) = Cardinality({i \in 1..Len(t) : t[i].op = "list_aps"})
    \* no device request after a login that failed
    /\ (Len(t) >= 3 /\ t[3].op = "login" /\ t[3].exc # "none")
       => /\ reqs = <<>>
          /\ \A i \in 1..Len(t) : t[i].op # "list_aps"
    \* close ends the command
    /\ \A i \in 1..Len(t) : t[i].op = "close" => (i = Len(t) /\ client = "closed")

\* C30: list-aps and get-all-aps call is_session_active first, login exactly
\* when it returned False, and send the device request only after the session
\* is ensured; after a failed login no device request is sent; and a client
\* that was opened is closed whichever way the command ends.
C30_CommandOrder ==
    /\ []CommandOrder
    /\ (client = "open") ~> (client = "closed")

\* get-all-aps found no session, logged in, fetched two pages and closed the
\* client.
C30_Witness ==
    /\ cli = "get-all-aps"
    /\ Len(Calls) = 6
    /\ Calls[2].op = "is_session_active" /\ Calls[2].ret = "False"
    /\ Calls[3].op = "login" /\ Calls[3].exc = "none"
    /\ Calls[4].op = "list_aps" /\ Calls[5].op = "list_aps"
    /\ Calls[6].op = "close"
    /\ Len(reqs) = 2 /\ pc = "done"
    /\ client = "closed"

====
